---- MODULE Spec2Model ----
(***************************************************************************)
(* State-machine model of the crash-detect repository:                     *)
(*   - TradingAlertSystem.check_signal          (trading_alert_system.py)  *)
(*   - the run_backtest loops of PortfolioBacktester,                      *)
(*     FullyInvestedBacktester, StrategyBacktester and CrashBacktester     *)
(*   - the dip-buy loop of optimized_price_reset.main                      *)
(* Floating-point quantities are modelled as exact rationals [n, d];       *)
(* percentages and thresholds are kept as integers scaled by 100.          *)
(***************************************************************************)
EXTENDS Integers, Sequences, FiniteSets, TLC

\* ------------------------------------------------------------------ bounds
\* number of rows of the data frame handed to run_backtest (len(data))
DataLen == 4
\* largest configured hold_days
MaxHold == 2
\* number of trading days fed to the dip-buy loop after the first price
MaxDays == 4

\* --------------------------------------------------------- value encodings
\* Python None for index / date / price valued locals
None == -1
\* pandas NaN in a price column (all real prices are positive)
NaN == 0

pd_isna(x) == x = NaN

\* ------------------------------------------------------- exact arithmetic
Abs(x) == IF x < 0 THEN -x ELSE x

RECURSIVE GCD(_, _)
GCD(a, b) == IF b = 0 THEN a ELSE GCD(b, a % b)

\* the rational n/d in lowest terms with a positive denominator
Rat(n, d) ==
    LET g == GCD(Abs(n), Abs(d))
        s == IF d < 0 THEN -1 ELSE 1
    IN  [n |-> s * (n \div g), d |-> s * (d \div g)]

RInt(k) == [n |-> k, d |-> 1]

RAdd(a, b) ==
    LET g == GCD(a.d, b.d)
    IN  Rat(a.n * (b.d \div g) + b.n * (a.d \div g), (a.d \div g) * b.d)

RNeg(a) == [n |-> -a.n, d |-> a.d]

RSub(a, b) == RAdd(a, RNeg(b))

RMul(a, b) ==
    LET g1 == GCD(Abs(a.n), b.d)
        g2 == GCD(Abs(b.n), a.d)
    IN  Rat((a.n \div g1) * (b.n \div g2), (a.d \div g2) * (b.d \div g1))

\* a / b, b # 0
RDiv(a, b) == RMul(a, Rat(b.d, b.n))

RLe(a, b) == a.n * b.d <= b.n * a.d

RGe(a, b) == RLe(b, a)

\* a percentage p (20 for 20%) as the fraction p / 100
Pct(p) == Rat(p, 100)

\* ===================================================== check_signal (pure)
\* Market state values are scaled by 100: fractal 0.60 is 60, P/C 1.30 is 130.
\* fractal_dimension may be None.
Regimes == {"Crisis", "Volatile", "Bull", "Normal", "Unknown"}

MarketStates ==
    [fractal_dimension : {None, 60, 75, 90},
     put_call_ratio    : {40, 100, 130},
     vix               : {15, 22, 30},
     markov_state      : Regimes]

\* the states calculate_current_state returns to the backtest loops
WindowStates ==
    [fractal_dimension : {None, 60},
     put_call_ratio    : {40, 130},
     vix               : {15, 30},
     markov_state      : {"Volatile", "Bull", "Unknown"}]

\* config['trading']['thresholds'] of the default configuration
DefaultThresholds ==
    [fractal_max |-> 70, put_call_min |-> 120, vix_min |-> 25,
     markov_state |-> "Volatile"]

\* a configuration that also sets the LONG keys, with overlapping ranges
OverlapThresholds ==
    [fractal_max |-> 70, put_call_min |-> 90, vix_min |-> 20,
     markov_state |-> "Volatile",
     fractal_max_long |-> 80, put_call_max_long |-> 110, vix_max_long |-> 25,
     markov_state_long |-> "Volatile"]

\* a configuration with LONG keys set and disjoint ranges
LongThresholds ==
    [fractal_max |-> 70, put_call_min |-> 120, vix_min |-> 25,
     markov_state |-> "Crisis",
     fractal_max_long |-> 80, put_call_max_long |-> 50, vix_max_long |-> 20,
     markov_state_long |-> "Normal"]

ThresholdConfigs == {DefaultThresholds, OverlapThresholds, LongThresholds}

\* dict.get(key, default)
Get(dict, key, default) == IF key \in DOMAIN dict THEN dict[key] ELSE default

\* mutant: the "is not None" guard of the fractal condition is missing
short_conditions_unguarded(state, thresholds) ==
    [fractal  |-> state.fractal_dimension < thresholds.fractal_max,
     put_call |-> state.put_call_ratio > thresholds.put_call_min,
     vix      |-> state.vix > thresholds.vix_min,
     markov   |-> state.markov_state = thresholds.markov_state]

short_conditions(state, thresholds) ==
    [fractal  |-> state.fractal_dimension # None
                  /\ state.fractal_dimension < thresholds.fractal_max,
     put_call |-> state.put_call_ratio > thresholds.put_call_min,
     vix      |-> state.vix > thresholds.vix_min,
     markov   |-> state.markov_state = thresholds.markov_state]

long_conditions(state, thresholds) ==
    [fractal  |-> state.fractal_dimension # None
                  /\ state.fractal_dimension
                       < Get(thresholds, "fractal_max_long", 80),
     put_call |-> state.put_call_ratio
                       < Get(thresholds, "put_call_max_long", 50),
     vix      |-> state.vix < Get(thresholds, "vix_max_long", 20),
     markov   |-> state.markov_state
                       = Get(thresholds, "markov_state_long", "Bull")]

\* all(conditions.values())
all(conditions) == \A k \in DOMAIN conditions : conditions[k]

\* mutant: the LONG set is tested before the SHORT set
check_signal_long_first(state, thresholds) ==
    IF all(long_conditions(state, thresholds))
    THEN <<"LONG", long_conditions(state, thresholds)>>
    ELSE IF all(short_conditions(state, thresholds))
         THEN <<"SHORT", short_conditions(state, thresholds)>>
         ELSE <<"None", short_conditions(state, thresholds)>>

\* mutant: a no-signal result carries the LONG map
check_signal_long_map(state, thresholds) ==
    IF all(short_conditions(state, thresholds))
    THEN <<"SHORT", short_conditions(state, thresholds)>>
    ELSE IF all(long_conditions(state, thresholds))
         THEN <<"LONG", long_conditions(state, thresholds)>>
         ELSE <<"None", long_conditions(state, thresholds)>>

\* returns <<signal_type, conditions>>; signal_type is "SHORT", "LONG" or
\* "None"
check_signal(state, thresholds) ==
    LET short_triggered == all(short_conditions(state, thresholds))
        long_triggered  == all(long_conditions(state, thresholds))
    IN  IF short_triggered
        THEN <<"SHORT", short_conditions(state, thresholds)>>
        ELSE IF long_triggered
             THEN <<"LONG", long_conditions(state, thresholds)>>
             ELSE <<"None", short_conditions(state, thresholds)>>


\* ============================================================ backtesters
\* lookback_window argument of run_backtest (scaled down from 90)
LookbackWindow == 1

Backtesters == {"Portfolio", "FullyInvested", "Strategy", "Crash"}

\* config['trading'] / config['data'] values read by run_backtest; the
\* gain target default differs between the two exit-rule backtesters
Configs(bt) ==
    [hold_days        : 1..MaxHold,
     min_data_points  : {LookbackWindow + 1, LookbackWindow + 2},
     gain_target      : {IF bt = "FullyInvested" THEN 30 ELSE 20},
     stop_loss        : {5},
     position_size    : {3},
     initial_capital  : {100000},
     thresholds       : {DefaultThresholds}]

\* one row of the data frame: index close, leveraged-instrument close
\* (NaN where the instrument has no price) and, for FullyInvested, SPY close
ClosePrices == {90, 100}
SpxsPrices == {10, 13}
SpyPrices == {50, 55}

Rows(bt) ==
    [close : ClosePrices,
     spxs  : SpxsPrices \cup {NaN},
     spy   : IF bt = "FullyInvested" THEN SpyPrices ELSE {NaN}]

\* rows before the first evaluated index only feed the indicator window
WarmupRow(bt) ==
    [close |-> 100, spxs |-> NaN,
     spy |-> IF bt = "FullyInvested" THEN 50 ELSE NaN]

\* data.index[k]: trading dates, strictly increasing, skipping weekends
index(k) == 1000 + k + 2 * (k \div 5)

\* data[col].iloc[k] on the rows d
iloc(d, col, k) == d[k + 1][col]

\* the rows d completed up to index upto with the rows of future
Reveal(d, upto, future) ==
    [k \in 1..(IF Len(d) > upto + 1 THEN Len(d) ELSE upto + 1) |->
        IF k <= Len(d) THEN d[k] ELSE future[k]]

Min(a, b) == IF a < b THEN a ELSE b

simulate_3x_inverse(spy_return) == RMul(RInt(-3), spy_return)

VARIABLES
    backtester,       \* which run_backtest is running
    config,           \* its configuration
    data,             \* rows of the data frame read so far
    pc,               \* "init", "loop", "monitor", "done"; in main:
                      \* "analyzed", "reported", "raised"
    i,                \* outer loop index
    pos,              \* locals of the position being monitored
    trades,           \* list of trade_info records
    signals,          \* CrashBacktester: list of signal_info records
    last_trade_exit,  \* exit date (exit index for FullyInvested) or None
    portfolio_value,
    spy_shares,       \* FullyInvested only
    cumulative_gain,  \* FullyInvested only
    exc,              \* exception caught by the iteration just run, or "None"
    final_portfolio_value, \* value returned by run_backtest
    stdout,           \* lines printed by run_backtest so far
    day_signal,       \* signal_type of the iteration just run, "NotEvaluated"
                      \* if it did not reach check_signal
    summary           \* main: the value returned by analyze_results

btVars == <<backtester, config, data, pc, i, pos, trades, signals,
            last_trade_exit, portfolio_value, spy_shares, cumulative_gain,
            exc, final_portfolio_value, stdout, day_signal, summary>>

NoPos == [open |-> FALSE]

\* the value None of main's summary
NoSummary == [none |-> TRUE]

BtIdle ==
    /\ backtester = "Portfolio"
    /\ config = [hold_days |-> 1]
    /\ data = << >>
    /\ pc = "off"
    /\ i = 0
    /\ pos = NoPos
    /\ trades = << >>
    /\ signals = << >>
    /\ last_trade_exit = None
    /\ portfolio_value = RInt(0)
    /\ spy_shares = RInt(0)
    /\ cumulative_gain = RInt(0)
    /\ exc = "None"
    /\ final_portfolio_value = RInt(0)
    /\ stdout = << >>
    /\ day_signal = "NotEvaluated"
    /\ summary = NoSummary

\* state after __init__: no trades, run_backtest not yet called
BtInit ==
    /\ backtester \in Backtesters
    /\ config \in Configs(backtester)
    /\ data = [k \in 1..LookbackWindow |-> WarmupRow(backtester)]
    /\ pc = "init"
    /\ i = 0
    /\ pos = NoPos
    /\ trades = << >>
    /\ signals = << >>
    /\ last_trade_exit = None
    /\ portfolio_value = RInt(0)
    /\ spy_shares = RInt(0)
    /\ cumulative_gain = RInt(0)
    /\ exc = "None"
    /\ final_portfolio_value = RInt(0)
    /\ stdout = << >>
    /\ day_signal = "NotEvaluated"
    /\ summary = NoSummary

\* run_backtest prologue: read the configuration, set the run's locals
StartRun ==
    /\ pc = "init"
    /\ \E row \in Rows(backtester) :
         LET d == Reveal(data, LookbackWindow,
                         [k \in 1..(LookbackWindow + 1) |-> row])
         IN  /\ data' = d
             /\ portfolio_value' =
                  IF backtester \in {"Portfolio", "FullyInvested"}
                  THEN RInt(config.initial_capital) ELSE RInt(0)
             /\ spy_shares' =
                  IF backtester = "FullyInvested"
                  THEN RDiv(RInt(config.initial_capital),
                            RInt(iloc(d, "spy", LookbackWindow)))
                  ELSE RInt(0)
    /\ trades' = << >>
    /\ signals' = << >>
    /\ i' = LookbackWindow
    /\ last_trade_exit' = None
    /\ cumulative_gain' = RInt(0)
    /\ pc' = "loop"
    /\ stdout' = <<[line |-> "Running", date |-> None]>>
    /\ UNCHANGED <<backtester, config, pos, exc, final_portfolio_value,
                   day_signal, summary>>


\* the rows that may follow the rows d up to index upto
FutureRows(d, upto) == [(Len(d) + 1)..(upto + 1) -> Rows(backtester)]

\* mutant: the guard compares with < , so the exit day itself is evaluated
in_trade_strict(k) ==
    CASE backtester = "FullyInvested" ->
           last_trade_exit # None /\ last_trade_exit # 0
           /\ k < last_trade_exit
      [] backtester = "Crash" -> FALSE
      [] OTHER -> last_trade_exit # None /\ index(k) < last_trade_exit

\* "Skip if we're still in a trade": the truth value of the guard.
\* A Timestamp is always truthy; the integer exit index 0 is falsy.
in_trade(k) ==
    CASE backtester = "FullyInvested" ->
           last_trade_exit # None /\ last_trade_exit # 0
           /\ k <= last_trade_exit
      [] backtester = "Crash" -> FALSE
      [] OTHER -> last_trade_exit # None /\ index(k) <= last_trade_exit

\* len(window_data) for window_data = data.iloc[i - lookback_window : i + 1]
window_len(k) == (k + 1) - (k - LookbackWindow)

\* (b - a) / a
rel_change(a, b) == RDiv(RSub(b, a), a)

\* mutant: the sleeve is sized off the initial capital
OpenPosition_initial(d, state) ==
    LET position_pct == Pct(config.position_size)
        current_spy_price == RInt(iloc(d, "spy", i))
        pv == IF backtester = "FullyInvested"
              THEN RMul(spy_shares, current_spy_price)
              ELSE portfolio_value
        position_value == RMul(RInt(config.initial_capital), position_pct)
        real == ~pd_isna(iloc(d, "spxs", i))
        entry_price_spxs == IF real THEN RInt(iloc(d, "spxs", i))
                            ELSE RInt(100)
    IN  /\ portfolio_value' = pv
        /\ pos' = [open |-> TRUE,
                   state |-> state,
                   entry_idx |-> i,
                   entry_price_spy |-> RInt(iloc(d, "close", i)),
                   current_spy_price |-> current_spy_price,
                   position_value |-> position_value,
                   long_value |-> RSub(pv, position_value),
                   spy_shares_remaining |->
                       IF backtester = "FullyInvested"
                       THEN RSub(spy_shares,
                                 RDiv(position_value, current_spy_price))
                       ELSE RInt(0),
                   spxs_shares |-> RDiv(position_value, entry_price_spxs),
                   entry_price_spxs |-> entry_price_spxs,
                   use_real_spxs |-> real,
                   j |-> i + 1,
                   days_held |-> 0,
                   exit_date |-> None,
                   exit_idx |-> None,
                   exit_price_spy |-> RInt(0),
                   exit_price_spxs |-> RInt(0),
                   exit_reason |-> "None",
                   exit_real |-> real,
                   checks_real |-> {}]
        /\ pc' = "monitor"
        /\ UNCHANGED <<i, trades, signals, last_trade_exit, spy_shares,
                       cumulative_gain, stdout>>

\* entry of a position on a SHORT signal (Portfolio and FullyInvested)
OpenPosition(d, state) ==
    LET position_pct == Pct(config.position_size)
        current_spy_price == RInt(iloc(d, "spy", i))
        pv == IF backtester = "FullyInvested"
              THEN RMul(spy_shares, current_spy_price)
              ELSE portfolio_value
        position_value == RMul(pv, position_pct)
        real == ~pd_isna(iloc(d, "spxs", i))
        entry_price_spxs == IF real THEN RInt(iloc(d, "spxs", i))
                            ELSE RInt(100)
    IN  /\ portfolio_value' = pv
        /\ pos' = [open |-> TRUE,
                   state |-> state,
                   entry_idx |-> i,
                   entry_price_spy |-> RInt(iloc(d, "close", i)),
                   current_spy_price |-> current_spy_price,
                   position_value |-> position_value,
                   long_value |-> RSub(pv, position_value),
                   spy_shares_remaining |->
                       IF backtester = "FullyInvested"
                       THEN RSub(spy_shares,
                                 RDiv(position_value, current_spy_price))
                       ELSE RInt(0),
                   spxs_shares |-> RDiv(position_value, entry_price_spxs),
                   entry_price_spxs |-> entry_price_spxs,
                   use_real_spxs |-> real,
                   j |-> i + 1,
                   days_held |-> 0,
                   exit_date |-> None,
                   exit_idx |-> None,
                   exit_price_spy |-> RInt(0),
                   exit_price_spxs |-> RInt(0),
                   exit_reason |-> "None",
                   exit_real |-> real,
                   checks_real |-> {}]
        /\ pc' = "monitor"
        /\ UNCHANGED <<i, trades, signals, last_trade_exit, spy_shares,
                       cumulative_gain, stdout>>

\* a line printed inside the loop: "Trade #n: <entry date> ..." or
\* "Signal #n: <date> ..."
print_line(kind, date) == [line |-> kind, date |-> date]

\* StrategyBacktester: the whole trade is resolved on the signal day
StrategyTrade(d, state) ==
    LET hold_days == config.hold_days
        position_size == Pct(config.position_size)
        entry_price_spy == RInt(iloc(d, "close", i))
        future_idx == Min(i + hold_days, DataLen - 1)
        exit_price_spy == RInt(iloc(d, "close", future_idx))
        spy_return == rel_change(entry_price_spy, exit_price_spy)
        entry_real == ~pd_isna(iloc(d, "spxs", i))
        exit_real == entry_real /\ ~pd_isna(iloc(d, "spxs", future_idx))
        spxs_return ==
            IF exit_real
            THEN rel_change(RInt(iloc(d, "spxs", i)),
                            RInt(iloc(d, "spxs", future_idx)))
            ELSE simulate_3x_inverse(spy_return)
        total_return == RAdd(RMul(Rat(95, 100), spy_return),
                             RMul(position_size, spxs_return))
        trade_info ==
            [entry_date |-> index(i),
             exit_date |-> index(future_idx),
             hold_days |-> future_idx - i,
             entry_price |-> entry_price_spy,
             exit_price |-> exit_price_spy,
             spy_return |-> RMul(spy_return, RInt(100)),
             spxs_return |-> RMul(spxs_return, RInt(100)),
             total_return |-> RMul(total_return, RInt(100)),
             fractal |-> state.fractal_dimension,
             vix |-> state.vix,
             put_call |-> state.put_call_ratio,
             markov |-> state.markov_state,
             entry_idx |-> i,
             exit_idx |-> future_idx,
             entry_real |-> entry_real,
             exit_real |-> exit_real]
    IN  /\ trades' = Append(trades, trade_info)
        /\ last_trade_exit' = index(future_idx)
        /\ stdout' = Append(stdout, print_line("Trade", index(i)))
        /\ i' = i + 1
        /\ UNCHANGED <<pc, pos, signals, portfolio_value, spy_shares,
                       cumulative_gain>>

\* look-ahead horizon of CrashBacktester, in rows
FutureWindowDays == 60

\* CrashBacktester records every signal with the subsequent low
RecordSignal(d, state, signal_type) ==
    LET future_window == Min(FutureWindowDays, DataLen - i - 1)
        future == i..(i + future_window)
        low_price ==
            CHOOSE p \in {iloc(d, "close", k) : k \in future} :
                \A k \in future : p <= iloc(d, "close", k)
        low_idx ==
            CHOOSE k \in future :
                /\ iloc(d, "close", k) = low_price
                /\ \A m \in future : iloc(d, "close", m) = low_price => k <= m
        base == [date |-> index(i),
                 type |-> signal_type,
                 price |-> iloc(d, "close", i),
                 fractal |-> state.fractal_dimension,
                 vix |-> state.vix,
                 put_call |-> state.put_call_ratio,
                 markov |-> state.markov_state]
        signal_info ==
            IF future_window > 0
            THEN base @@ [low_date |-> index(low_idx),
                          low_price |-> low_price,
                          drop_pct |->
                              RMul(rel_change(RInt(iloc(d, "close", i)),
                                              RInt(low_price)), RInt(100)),
                          days_to_low |-> index(low_idx) - index(i)]
            ELSE base
    IN  /\ signals' = Append(signals, signal_info)
        /\ stdout' = Append(stdout, print_line("Signal", index(i)))
        /\ i' = i + 1
        /\ UNCHANGED <<pc, pos, trades, last_trade_exit, portfolio_value,
                       spy_shares, cumulative_gain>>

\* index up to which the body of iteration i reads rows on a signal
read_upto ==
    CASE backtester = "Strategy" -> Min(i + config.hold_days, DataLen - 1)
      [] backtester = "Crash" -> i + Min(FutureWindowDays, DataLen - i - 1)
      [] OTHER -> i

\* mutant: the exception is not contained and ends the run
on_exception_abort ==
    /\ pc' = "done"
    /\ exc' = "Exception"
    /\ day_signal' = "NotEvaluated"
    /\ UNCHANGED <<data, i, pos, trades, signals, last_trade_exit,
                   portfolio_value, spy_shares, cumulative_gain, stdout>>

\* "except Exception as e: continue"
on_exception ==
    /\ i' = i + 1
    /\ exc' = "Exception"
    /\ day_signal' = "NotEvaluated"
    /\ UNCHANGED <<data, pc, pos, trades, signals, last_trade_exit,
                   portfolio_value, spy_shares, cumulative_gain, stdout>>

\* mutant: every backtester acts on any signal, SHORT or LONG
acts_on_any(state) ==
    check_signal(state, config.thresholds)[1] # "None"

\* "if signal_type == 'SHORT'" (CrashBacktester: "if signal_type")
acts_on(state) ==
    LET signal_type == check_signal(state, config.thresholds)[1]
    IN  IF backtester = "Crash"
        THEN signal_type # "None"
        ELSE signal_type = "SHORT"

\* one iteration of "for i in range(start_idx, len(data))"
EvalDay ==
    /\ pc = "loop"
    /\ i < DataLen
    /\ UNCHANGED <<backtester, config, final_portfolio_value, summary>>
    /\ IF in_trade(i) \/ window_len(i) < config.min_data_points
       THEN \* continue
            /\ i' = i + 1
            /\ exc' = "None"
            /\ day_signal' = "NotEvaluated"
            /\ UNCHANGED <<data, pc, pos, trades, signals, last_trade_exit,
                           portfolio_value, spy_shares, cumulative_gain,
                           stdout>>
       ELSE \/ \* calculate_current_state raised
               on_exception
            \/ \* a state whose signal the backtester does not act on
               /\ \E state \in WindowStates :
                    /\ ~acts_on(state)
                    /\ day_signal' = check_signal(state, config.thresholds)[1]
               /\ i' = i + 1
               /\ exc' = "None"
               /\ \E future \in FutureRows(data, i) :
                    data' = Reveal(data, i, future)
               /\ UNCHANGED <<pc, pos, trades, signals, last_trade_exit,
                              portfolio_value, spy_shares, cumulative_gain,
                              stdout>>
            \/ \* a signal the backtester acts on
               \E state \in {s \in WindowStates : acts_on(s)} :
                 \E future \in FutureRows(data, read_upto) :
                   LET d == Reveal(data, read_upto, future)
                   IN  /\ exc' = "None"
                       /\ day_signal' =
                              check_signal(state, config.thresholds)[1]
                       /\ data' = d
                       /\ CASE backtester = "Strategy" ->
                                 StrategyTrade(d, state)
                            [] backtester = "Crash" ->
                                 RecordSignal(d, state,
                                     check_signal(state,
                                                  config.thresholds)[1])
                            [] OTHER -> OpenPosition(d, state)

\* mutant: the maximum hold is tested before the gain target and the stop
exit_check_time_first(spxs_return, days_held) ==
    LET hold_days == config.hold_days
        gain_target == Pct(config.gain_target)
        stop_loss == Pct(config.stop_loss)
    IN  IF days_held >= hold_days THEN "TIME EXIT"
        ELSE IF RGe(spxs_return, gain_target) THEN "GAIN TARGET"
        ELSE IF RLe(spxs_return, RNeg(stop_loss)) THEN "STOP LOSS"
        ELSE "None"

\* mutant: target and stop are only honoured on the last hold day
exit_check_last_day(spxs_return, days_held) ==
    LET hold_days == config.hold_days
        gain_target == Pct(config.gain_target)
        stop_loss == Pct(config.stop_loss)
    IN  IF days_held < hold_days THEN "None"
        ELSE IF RGe(spxs_return, gain_target) THEN "GAIN TARGET"
        ELSE IF RLe(spxs_return, RNeg(stop_loss)) THEN "STOP LOSS"
        ELSE "TIME EXIT"

\* "Check exit conditions": the reason of the branch taken, "None" if the
\* loop goes on
exit_check(spxs_return, days_held) ==
    LET hold_days == config.hold_days
        gain_target == Pct(config.gain_target)
        stop_loss == Pct(config.stop_loss)
    IN  IF RGe(spxs_return, gain_target) THEN "GAIN TARGET"
        ELSE IF RLe(spxs_return, RNeg(stop_loss)) THEN "STOP LOSS"
        ELSE IF days_held >= hold_days THEN "TIME EXIT"
        ELSE "None"

\* mutant: the range stops one day early
monitor_stop_short == Min(i + config.hold_days, DataLen)

\* stop of range(i + 1, min(i + hold_days + 1, len(data)))
monitor_stop == Min(i + config.hold_days + 1, DataLen)

\* one iteration of "for j in range(i + 1, min(i + hold_days + 1, len(data)))"
MonitorDay ==
    /\ pc = "monitor"
    /\ pos.exit_date = None
    /\ pos.j < monitor_stop
    /\ \E future \in FutureRows(data, pos.j) :
         LET d == Reveal(data, pos.j, future)
             j == pos.j
             days_held == j - i
             \* price recorded as the exit price of the benchmark leg
             current_spy ==
                 IF backtester = "FullyInvested"
                 THEN RInt(iloc(d, "spy", j))
                 ELSE RInt(iloc(d, "close", j))
             real == pos.use_real_spxs /\ ~pd_isna(iloc(d, "spxs", j))
             spy_return == rel_change(pos.entry_price_spy,
                                      RInt(iloc(d, "close", j)))
             simulated_return == simulate_3x_inverse(spy_return)
             current_spxs ==
                 IF real
                 THEN RInt(iloc(d, "spxs", j))
                 ELSE RMul(pos.entry_price_spxs,
                           RAdd(RInt(1), simulated_return))
             spxs_return == rel_change(pos.entry_price_spxs, current_spxs)
             exit_reason == exit_check(spxs_return, days_held)
             checked == [pos EXCEPT !.days_held = days_held,
                                    !.checks_real = @ \cup {real}]
         IN  /\ data' = d
             /\ pos' = IF exit_reason # "None"
                       THEN [checked EXCEPT !.exit_date = index(j),
                                            !.exit_idx = j,
                                            !.exit_price_spy = current_spy,
                                            !.exit_price_spxs = current_spxs,
                                            !.exit_reason = exit_reason,
                                            !.exit_real = real]
                       ELSE [checked EXCEPT !.j = j + 1]
    /\ exc' = "None"
    /\ UNCHANGED <<backtester, config, pc, i, trades, signals,
                   last_trade_exit, portfolio_value, spy_shares,
                   cumulative_gain, final_portfolio_value, stdout,
                   day_signal, summary>>

\* mutant: the "no exit found" fallback is missing
resolved_exit_missing(d, p) == p

\* the position as it stands after "If no exit found, use last available
\* data", on the rows d
resolved_exit(d, p) ==
    IF p.exit_date # None
    THEN p
    ELSE LET exit_idx == Min(i + config.hold_days, DataLen - 1)
             exit_price_spy == RInt(iloc(d, "close", exit_idx))
             real == p.use_real_spxs /\ ~pd_isna(iloc(d, "spxs", exit_idx))
             spy_return == rel_change(p.entry_price_spy, exit_price_spy)
         IN  [p EXCEPT
                !.exit_idx = exit_idx,
                !.exit_date = index(exit_idx),
                !.exit_price_spy =
                    IF backtester = "FullyInvested"
                    THEN RInt(iloc(d, "spy", exit_idx))
                    ELSE exit_price_spy,
                !.days_held = exit_idx - i,
                !.exit_price_spxs =
                    IF real
                    THEN RInt(iloc(d, "spxs", exit_idx))
                    ELSE RMul(p.entry_price_spxs,
                              RAdd(RInt(1), simulate_3x_inverse(spy_return))),
                !.exit_real = real,
                !.exit_reason = "END OF DATA"]

\* fields of trade_info common to both exit-rule backtesters, with the
\* pricing source of entry, checks and exit kept alongside
trade_base(p, spxs_return) ==
    [entry_date |-> index(p.entry_idx),
     exit_date |-> p.exit_date,
     days_held |-> p.days_held,
     exit_reason |-> p.exit_reason,
     spxs_return |-> RMul(spxs_return, RInt(100)),
     fractal |-> p.state.fractal_dimension,
     vix |-> p.state.vix,
     put_call |-> p.state.put_call_ratio,
     entry_idx |-> p.entry_idx,
     exit_idx |-> p.exit_idx,
     entry_real |-> p.use_real_spxs,
     exit_real |-> p.exit_real,
     checks_real |-> p.checks_real]

\* mutant: the new value is booked in the trade but not carried forward
PortfolioClose_stale(p) ==
    LET spy_return == rel_change(p.entry_price_spy, p.exit_price_spy)
        spxs_return == rel_change(p.entry_price_spxs, p.exit_price_spxs)
        long_portion == RMul(p.long_value, RAdd(RInt(1), spy_return))
        short_portion == RMul(p.position_value, RAdd(RInt(1), spxs_return))
        new_portfolio_value == RAdd(long_portion, short_portion)
        portfolio_return ==
            RDiv(RSub(new_portfolio_value, portfolio_value), portfolio_value)
        trade_info ==
            trade_base(p, spxs_return) @@
            [entry_price_spy |-> p.entry_price_spy,
             exit_price_spy |-> p.exit_price_spy,
             entry_price_spxs |-> p.entry_price_spxs,
             exit_price_spxs |-> p.exit_price_spxs,
             spy_return |-> RMul(spy_return, RInt(100)),
             portfolio_before |-> portfolio_value,
             portfolio_after |-> new_portfolio_value,
             portfolio_return |-> RMul(portfolio_return, RInt(100)),
             position_value |-> p.position_value]
    IN  /\ trades' = Append(trades, trade_info)
        /\ portfolio_value' = portfolio_value
        /\ last_trade_exit' = p.exit_date
        /\ UNCHANGED <<spy_shares, cumulative_gain>>

\* PortfolioBacktester: returns, portfolio update and trade record
PortfolioClose(p) ==
    LET spy_return == rel_change(p.entry_price_spy, p.exit_price_spy)
        spxs_return == rel_change(p.entry_price_spxs, p.exit_price_spxs)
        long_portion == RMul(p.long_value, RAdd(RInt(1), spy_return))
        short_portion == RMul(p.position_value, RAdd(RInt(1), spxs_return))
        new_portfolio_value == RAdd(long_portion, short_portion)
        portfolio_return ==
            RDiv(RSub(new_portfolio_value, portfolio_value), portfolio_value)
        trade_info ==
            trade_base(p, spxs_return) @@
            [entry_price_spy |-> p.entry_price_spy,
             exit_price_spy |-> p.exit_price_spy,
             entry_price_spxs |-> p.entry_price_spxs,
             exit_price_spxs |-> p.exit_price_spxs,
             spy_return |-> RMul(spy_return, RInt(100)),
             portfolio_before |-> portfolio_value,
             portfolio_after |-> new_portfolio_value,
             portfolio_return |-> RMul(portfolio_return, RInt(100)),
             position_value |-> p.position_value]
    IN  /\ trades' = Append(trades, trade_info)
        /\ portfolio_value' = new_portfolio_value
        /\ last_trade_exit' = p.exit_date
        /\ UNCHANGED <<spy_shares, cumulative_gain>>

\* mutant: the proceeds buy shares at the entry price of the trade
reinvest_at_entry(new_portfolio_value, exit_spy_price) ==
    RDiv(new_portfolio_value, pos.current_spy_price)

\* "Reinvest everything back into SPY": the shares held after the trade
reinvest(new_portfolio_value, exit_spy_price) ==
    RDiv(new_portfolio_value, exit_spy_price)

\* FullyInvestedBacktester: returns, reinvestment and trade record
FullyInvestedClose(p) ==
    LET spxs_return == rel_change(p.entry_price_spxs, p.exit_price_spxs)
        spy_value_at_exit == RMul(p.spy_shares_remaining, p.exit_price_spy)
        spxs_value_at_exit == RMul(p.spxs_shares, p.exit_price_spxs)
        new_portfolio_value == RAdd(spy_value_at_exit, spxs_value_at_exit)
        trade_gain == RSub(new_portfolio_value, portfolio_value)
        trade_return ==
            RMul(RDiv(RSub(new_portfolio_value, portfolio_value),
                      portfolio_value), RInt(100))
        new_cumulative_gain == RAdd(cumulative_gain, trade_gain)
        new_spy_shares == reinvest(new_portfolio_value, p.exit_price_spy)
        trade_info ==
            trade_base(p, spxs_return) @@
            [entry_spy_price |-> p.current_spy_price,
             exit_spy_price |-> p.exit_price_spy,
             entry_spxs_price |-> p.entry_price_spxs,
             exit_spxs_price |-> p.exit_price_spxs,
             spy_shares_held |-> p.spy_shares_remaining,
             spxs_shares |-> p.spxs_shares,
             portfolio_before |-> RSub(new_portfolio_value, trade_gain),
             portfolio_after |-> new_portfolio_value,
             trade_gain |-> trade_gain,
             trade_return |-> trade_return,
             cumulative_gain |-> new_cumulative_gain,
             spy_shares_after |-> new_spy_shares]
    IN  /\ trades' = Append(trades, trade_info)
        /\ portfolio_value' = new_portfolio_value
        /\ cumulative_gain' = new_cumulative_gain
        /\ spy_shares' = new_spy_shares
        /\ last_trade_exit' = p.exit_idx

\* last row read when the trade is closed
close_reads ==
    IF pos.exit_date # None
    THEN pos.exit_idx
    ELSE Min(i + config.hold_days, DataLen - 1)

\* after the monitoring loop: resolve the exit, book the trade, go on with
\* the next i
CloseTrade ==
    /\ pc = "monitor"
    /\ \/ pos.exit_date # None
       \/ pos.j >= monitor_stop
    /\ \E future \in FutureRows(data, close_reads) :
         LET d == Reveal(data, close_reads, future)
             p == resolved_exit(d, pos)
         IN  /\ data' = d
             /\ IF backtester = "FullyInvested"
                THEN FullyInvestedClose(p)
                ELSE PortfolioClose(p)
    /\ stdout' = Append(stdout, print_line("Trade", index(pos.entry_idx)))
    /\ pos' = NoPos
    /\ pc' = "loop"
    /\ i' = i + 1
    /\ exc' = "None"
    /\ UNCHANGED <<backtester, config, signals, final_portfolio_value,
                   day_signal, summary>>

\* end of run_backtest: self.trades = trades; return
FinishRun ==
    /\ pc = "loop"
    /\ i >= DataLen
    /\ pc' = "done"
    /\ IF backtester = "FullyInvested"
       THEN \E future \in FutureRows(data, DataLen - 1) :
              LET d == Reveal(data, DataLen - 1, future)
                  final_spy_price == RInt(iloc(d, "spy", DataLen - 1))
              IN  /\ data' = d
                  /\ final_portfolio_value' =
                         RMul(spy_shares, final_spy_price)
       ELSE /\ data' = data
            /\ final_portfolio_value' = portfolio_value
    /\ exc' = "None"
    /\ UNCHANGED <<backtester, config, i, pos, trades, signals,
                   last_trade_exit, portfolio_value, spy_shares,
                   cumulative_gain, stdout, day_signal, summary>>

\* analyze_results(trades, final_portfolio): "if not trades" prints the
\* no-trades message and returns None; otherwise the summary dict
analyze_results(ts, final_portfolio) ==
    IF ts = << >>
    THEN NoSummary
    ELSE [none |-> FALSE,
          initial_capital |-> config.initial_capital,
          final_portfolio |-> final_portfolio,
          trades |-> Len(ts)]

\* main of backtest_portfolio.py / backtest_fully_invested.py after
\* run_backtest: summary = backtester.analyze_results(...)
AnalyzeResults ==
    /\ pc = "done"
    /\ backtester \in {"Portfolio", "FullyInvested"}
    /\ summary' = analyze_results(trades, final_portfolio_value)
    /\ pc' = "analyzed"
    /\ UNCHANGED <<backtester, config, data, i, pos, trades, signals,
                   last_trade_exit, portfolio_value, spy_shares,
                   cumulative_gain, exc, final_portfolio_value, stdout,
                   day_signal>>

\* main: the report is written from the entries of summary;
\* summary['initial_capital'] raises TypeError when summary is None
WriteReport ==
    /\ pc = "analyzed"
    /\ pc' = IF summary.none THEN "raised" ELSE "reported"
    /\ UNCHANGED <<backtester, config, data, i, pos, trades, signals,
                   last_trade_exit, portfolio_value, spy_shares,
                   cumulative_gain, exc, final_portfolio_value, stdout,
                   day_signal, summary>>


\* =================================================== dip-buy policy (main)
base_buy_amount == 10000
\* dip_threshold = -0.05 and reset_threshold = 1.05, in percent
dip_threshold == -5
reset_threshold == 105

\* annual_cap: the script sets 300000; smaller caps let a bounded run of
\* days exhaust a year's budget
AnnualCaps == {25000, 30000, 50000}

\* closing prices of the accumulated instrument
DipPrices == {95, 96, 100, 120}

FirstYear == 2020

VARIABLES
    annual_cap,
    prices,               \* prices.iloc[0 .. i-1] read so far
    year,                 \* prices.index[i-1].year
    dip_pc,               \* "off", "loop", "done"
    qqq_shares,
    total_invested,
    last_purchase_price,  \* None before the first purchase
    last_10k_price,       \* None before the first base-unit purchase
    buy_sequence,
    annual_spending,      \* dict year -> amount spent
    buys,
    resets,
    skips,
    final_value

dipVars == <<annual_cap, prices, year, dip_pc, qqq_shares, total_invested,
             last_purchase_price, last_10k_price, buy_sequence,
             annual_spending, buys, resets, skips, final_value>>

DipIdle ==
    /\ annual_cap = 0
    /\ prices = << >>
    /\ year = FirstYear
    /\ dip_pc = "off"
    /\ qqq_shares = RInt(0)
    /\ total_invested = 0
    /\ last_purchase_price = None
    /\ last_10k_price = None
    /\ buy_sequence = 0
    /\ annual_spending = << >>
    /\ buys = << >>
    /\ resets = << >>
    /\ skips = << >>
    /\ final_value = RInt(0)

\* state when the main loop is entered, with the first price loaded
DipInit ==
    /\ annual_cap \in AnnualCaps
    /\ \E p \in DipPrices : prices = <<p>>
    /\ year = FirstYear
    /\ dip_pc = "loop"
    /\ qqq_shares = RInt(0)
    /\ total_invested = 0
    /\ last_purchase_price = None
    /\ last_10k_price = None
    /\ buy_sequence = 0
    /\ annual_spending = << >>
    /\ buys = << >>
    /\ resets = << >>
    /\ skips = << >>
    /\ final_value = RInt(0)

\* mutant: the ideal amount is bought without fitting it to the cap
smart_size_ideal(test_sequence, remaining_cap) ==
    base_buy_amount * test_sequence

\* mutant: a single base unit is bought whenever one fits
smart_size_one(test_sequence, remaining_cap) ==
    IF base_buy_amount <= remaining_cap THEN base_buy_amount ELSE None

\* mutant: one base unit is bought even when it does not fit
RECURSIVE smart_size_floor(_, _)
smart_size_floor(test_sequence, remaining_cap) ==
    IF test_sequence <= 1
    THEN base_buy_amount
    ELSE IF base_buy_amount * test_sequence <= remaining_cap
         THEN base_buy_amount * test_sequence
         ELSE smart_size_floor(test_sequence - 1, remaining_cap)

\* "Try reducing by $10K increments until it fits": the first test_amount,
\* counting test_sequence down to 1, that is <= remaining_cap; None if none
RECURSIVE smart_size(_, _)
smart_size(test_sequence, remaining_cap) ==
    IF test_sequence <= 0
    THEN None
    ELSE IF base_buy_amount * test_sequence <= remaining_cap
         THEN base_buy_amount * test_sequence
         ELSE smart_size(test_sequence - 1, remaining_cap)

\* mutant: a reset steps the progression back by one instead of restarting
reset_check_decrement(current_price) ==
    IF last_10k_price # None
       /\ current_price * 100 > last_10k_price * reset_threshold
       /\ buy_sequence > 0
    THEN buy_sequence - 1
    ELSE buy_sequence

\* buy_sequence after "Check for price-based reset"
reset_check(current_price) ==
    IF last_10k_price # None
       /\ current_price * 100 > last_10k_price * reset_threshold
       /\ buy_sequence > 0
    THEN 0
    ELSE buy_sequence

\* mutant: only the drawdown from the last purchase triggers
triggered_drawdown_only(current_price, prev_price) ==
    IF last_purchase_price # None
    THEN (current_price - last_purchase_price) * 100
             <= dip_threshold * last_purchase_price
    ELSE FALSE

\* mutant: a day triggers only when both drops hold
triggered_both(current_price, prev_price) ==
    /\ (current_price - prev_price) * 100 <= dip_threshold * prev_price
    /\ last_purchase_price # None
    /\ (current_price - last_purchase_price) * 100
           <= dip_threshold * last_purchase_price

\* "if single_day_drop or drawdown_trigger"
triggered(current_price, prev_price) ==
    LET single_day_drop ==
            (current_price - prev_price) * 100 <= dip_threshold * prev_price
        drawdown_trigger ==
            IF last_purchase_price # None
            THEN (current_price - last_purchase_price) * 100
                     <= dip_threshold * last_purchase_price
            ELSE FALSE
    IN  single_day_drop \/ drawdown_trigger

\* mutant: the first purchase does not set the reference price of the reset
track_10k_price_after_first(actual_amount, current_price) ==
    IF actual_amount = base_buy_amount /\ last_purchase_price # None
    THEN current_price
    ELSE last_10k_price

\* mutant: every purchase moves the reference price of the reset
track_10k_price_always(actual_amount, current_price) == current_price

\* "Track $10K purchase price for reset": last_10k_price after a purchase
track_10k_price(actual_amount, current_price) ==
    IF actual_amount = base_buy_amount
    THEN current_price
    ELSE last_10k_price

\* the body of "for i in range(1, len(prices))" for the day whose price is
\* current_price and whose date lies in date_year
DipStep(current_price, date_year) ==
    /\ dip_pc = "loop"
    /\ Len(prices) < MaxDays + 1
    /\   LET prev_price == prices[Len(prices)]
             date == Len(prices)
             seq == reset_check(current_price)
             spent == Get(annual_spending, date_year, 0)
             remaining_cap == annual_cap - spent
             ideal_amount == base_buy_amount * (seq + 1)
             actual_amount == smart_size(seq + 1, remaining_cap)
         IN  /\ prices' = Append(prices, current_price)
             /\ year' = date_year
             /\ resets' = IF seq # buy_sequence
                          THEN Append(resets, [date |-> date,
                                               price |-> current_price])
                          ELSE resets
             /\ IF triggered(current_price, prev_price)
                THEN IF actual_amount # None
                        /\ actual_amount >= base_buy_amount
                     THEN \* execute buy
                          /\ qqq_shares' =
                               RAdd(qqq_shares,
                                    Rat(actual_amount, current_price))
                          /\ total_invested' = total_invested + actual_amount
                          /\ annual_spending' =
                               (date_year :> (spent + actual_amount))
                               @@ annual_spending
                          /\ buy_sequence' = seq + 1
                          /\ last_purchase_price' = current_price
                          /\ last_10k_price' =
                               track_10k_price(actual_amount, current_price)
                          /\ buys' = Append(buys,
                                            [date |-> date,
                                             price |-> current_price,
                                             amount |-> actual_amount,
                                             sequence |-> seq + 1,
                                             year |-> date_year])
                          /\ skips' = skips
                     ELSE \* can't fit even one base unit: skip
                          /\ skips' = Append(skips,
                                             [date |-> date,
                                              year |-> date_year,
                                              remaining |-> remaining_cap,
                                              wanted |-> ideal_amount,
                                              price |-> current_price])
                          /\ buy_sequence' = seq
                          /\ UNCHANGED <<qqq_shares, total_invested,
                                         annual_spending,
                                         last_purchase_price,
                                         last_10k_price, buys>>
                ELSE /\ buy_sequence' = seq
                     /\ UNCHANGED <<qqq_shares, total_invested,
                                    annual_spending, last_purchase_price,
                                    last_10k_price, buys, skips>>
    /\ UNCHANGED <<annual_cap, dip_pc, final_value>>

\* one iteration of the loop on the next row of prices
DipDay ==
    \E current_price \in DipPrices, date_year \in {year, year + 1} :
        DipStep(current_price, date_year)

\* a falling price path: each price is 6% below the one before it
DropPrices == {125000, 117500, 110450, 103823}

\* state when the main loop is entered on a path over DropPrices
DropInit ==
    /\ annual_cap \in AnnualCaps
    /\ \E p \in DropPrices : prices = <<p>>
    /\ year = FirstYear
    /\ dip_pc = "loop"
    /\ qqq_shares = RInt(0)
    /\ total_invested = 0
    /\ last_purchase_price = None
    /\ last_10k_price = None
    /\ buy_sequence = 0
    /\ annual_spending = << >>
    /\ buys = << >>
    /\ resets = << >>
    /\ skips = << >>
    /\ final_value = RInt(0)

\* one iteration of the loop on the next row of a path over DropPrices
DropDay ==
    \E current_price \in DropPrices, date_year \in {year, year + 1} :
        DipStep(current_price, date_year)

\* mutant: the shares are marked at the first price of the series
DipResults_first_price ==
    /\ dip_pc = "loop"
    /\ Len(prices) >= MaxDays + 1
    /\ final_value' = RMul(qqq_shares, RInt(prices[1]))
    /\ dip_pc' = "done"
    /\ UNCHANGED <<annual_cap, prices, year, qqq_shares, total_invested,
                   last_purchase_price, last_10k_price, buy_sequence,
                   annual_spending, buys, resets, skips>>

\* "Results": mark the shares at the last price
DipResults ==
    /\ dip_pc = "loop"
    /\ Len(prices) >= MaxDays + 1
    /\ final_value' = RMul(qqq_shares, RInt(prices[Len(prices)]))
    /\ dip_pc' = "done"
    /\ UNCHANGED <<annual_cap, prices, year, qqq_shares, total_invested,
                   last_purchase_price, last_10k_price, buy_sequence,
                   annual_spending, buys, resets, skips>>

\* ================================= calculate_current_state / train_hmm_model
\* "if len(features) < 30"
MinFeatureRows == 30
\* GaussianHMM(n_components=4): the states are 0 .. 3
NComponents == 4
HmmStates == 0..(NComponents - 1)

\* windows of returns.rolling(5).std() and returns.rolling(20).std()
RollingShort == 5
RollingLong == 20

\* data['returns'] of a window: its length and the position of its one
\* missing (NaN) return, 0 if none is missing. Complete windows of 19, 48,
\* 49 and 50 rows, and windows of 49 rows whose first return (no
\* pct_change) or whose 30th return is missing.
ReturnsColumns ==
    [len : {RollingLong - 1, MinFeatureRows + RollingLong - 2,
            MinFeatureRows + RollingLong - 1, MinFeatureRows + RollingLong},
     nan_at : {0}]
    \cup [len : {MinFeatureRows + RollingLong - 1},
          nan_at : {1, MinFeatureRows}]

\* np.isnan(returns[k])
isnan(returns, k) == k = returns.nan_at

\* returns.rolling(w).std() at row k is defined iff the w returns ending at
\* row k exist and none is NaN
rolling_std_defined(returns, w, k) ==
    k >= w /\ returns.nan_at \notin (k - w + 1)..k

\* mutant: only the return and its 5-day deviation are tested
complete_row_short(returns, k) ==
    /\ ~isnan(returns, k)
    /\ rolling_std_defined(returns, RollingShort, k)

\* "~np.isnan(features).any(axis=1)": no column of the row is NaN
complete_row(returns, k) ==
    /\ ~isnan(returns, k)
    /\ rolling_std_defined(returns, RollingShort, k)
    /\ rolling_std_defined(returns, RollingLong, k)

\* len(features) after the rows with a NaN are removed
len_features(returns) ==
    Cardinality({k \in 1..returns.len : complete_row(returns, k)})

\* number of days model.predict(features) assigns to one state
DayCounts == {0, 1, 14, MinFeatureRows - 1, MinFeatureRows}

RECURSIVE SumCounts(_, _)
SumCounts(c, k) == IF k < 0 THEN 0 ELSE c[k] + SumCounts(c, k - 1)

\* the per-state day counts of a decoded sequence of n rows
DecodedCounts(n) ==
    {c \in [HmmStates -> DayCounts] : SumCounts(c, NComponents - 1) = n}

\* mean and std of the returns of one state's days, scaled by 1000
\* (with the label thresholds 15, 12 and 1 among the values)
ReturnStats ==
    {[mean |-> -2, std |-> 20], [mean |-> 2, std |-> 20],
     [mean |-> 0, std |-> 20], [mean |-> -2, std |-> 15],
     [mean |-> 2, std |-> 12], [mean |-> 1, std |-> 10],
     [mean |-> -2, std |-> 10]}

\* mutant: statistics are collected for every state, observed or not
observed_states_all(counts) == HmmStates

\* "if np.sum(state_mask) > 0": the states that get an entry in state_stats
observed_states(counts) == {st \in HmmStates : counts[st] > 0}

\* state_stats: the std of a single day's return is NaN
collect_state_stats(counts, returns_of) ==
    [st \in observed_states(counts) |->
        [mean  |-> returns_of[st].mean,
         std   |-> IF counts[st] <= 1 THEN NaN ELSE returns_of[st].std,
         count |-> counts[st]]]

\* mutant: a positive mean is tested before the volatility
label_of_bull_first(stats) ==
    IF stats.std > 15 /\ stats.mean < 0 THEN "Crisis"
    ELSE IF stats.mean > 1 THEN "Bull"
    ELSE IF stats.std > 12 THEN "Volatile"
    ELSE "Normal"

\* "Map states to labels", thresholds 0.015, 0.012 and 0.001 scaled by 1000
label_of(stats) ==
    IF stats.std > 15 /\ stats.mean < 0 THEN "Crisis"
    ELSE IF stats.std > 12 THEN "Volatile"
    ELSE IF stats.mean > 1 THEN "Bull"
    ELSE "Normal"

assign_state_labels(stats) == [st \in DOMAIN stats |-> label_of(stats[st])]

\* mutant: a missing model is reported as the threshold's regime
markov_state_of_default(model, labels, state_num) ==
    IF model = None THEN "Volatile" ELSE Get(labels, state_num, "Unknown")

\* markov_state of calculate_current_state
markov_state_of(model, labels, state_num) ==
    IF model = None
    THEN "Unknown"
    ELSE Get(labels, state_num, "Unknown")

VARIABLES
    cs_pc,              \* "off", "call", "state"
    cs_returns,         \* data['returns'] of the window
    n_features,         \* len(features) in train_hmm_model
    hmm_model,          \* None, or the fitted model (its n_components)
    state_count,        \* days per state in the decoded sequence
    state_stats,
    state_labels,       \* the label map; empty when no model is returned
    current_state_num   \* hmm_model.predict(current_features)[0], or None

csVars == <<cs_pc, cs_returns, n_features, hmm_model, state_count,
            state_stats, state_labels, current_state_num>>

NoLabels == [st \in {} |-> "Unknown"]

CsIdle ==
    /\ cs_pc = "off"
    /\ cs_returns = [len |-> 0, nan_at |-> 0]
    /\ n_features = 0
    /\ hmm_model = None
    /\ state_count = [st \in HmmStates |-> 0]
    /\ state_stats = NoLabels
    /\ state_labels = NoLabels
    /\ current_state_num = None

\* before calculate_current_state is called on a window
CsInit ==
    /\ cs_pc = "call"
    /\ cs_returns = [len |-> 0, nan_at |-> 0]
    /\ n_features = 0
    /\ hmm_model = None
    /\ state_count = [st \in HmmStates |-> 0]
    /\ state_stats = NoLabels
    /\ state_labels = NoLabels
    /\ current_state_num = None

\* train_hmm_model returned (None, None)
NoModel(n) ==
    /\ n_features' = n
    /\ hmm_model' = None
    /\ state_count' = [st \in HmmStates |-> 0]
    /\ state_stats' = NoLabels
    /\ state_labels' = NoLabels
    /\ current_state_num' = None

\* train_hmm_model fitted a model on n rows decoded as counts
FittedModel(n, counts, returns_of, state_num) ==
    LET stats == collect_state_stats(counts, returns_of)
    IN  /\ n_features' = n
        /\ hmm_model' = NComponents
        /\ state_count' = counts
        /\ state_stats' = stats
        /\ state_labels' = assign_state_labels(stats)
        /\ current_state_num' = state_num

\* ======================================== check_signal on arbitrary inputs
VARIABLES
    sig_state,       \* the market state passed to check_signal
    sig_thresholds,  \* config['trading']['thresholds']
    sig_result       \* <<signal_type, conditions>> returned, or << >>

sigVars == <<sig_state, sig_thresholds, sig_result>>

SigIdle ==
    /\ sig_state = [fractal_dimension |-> None, put_call_ratio |-> 100,
                    vix |-> 22, markov_state |-> "Unknown"]
    /\ sig_thresholds = DefaultThresholds
    /\ sig_result = << >>

SigInit ==
    /\ sig_state \in MarketStates
    /\ sig_thresholds \in ThresholdConfigs
    /\ sig_result = << >>

CheckSignal ==
    /\ sig_result = << >>
    /\ sig_result' = check_signal(sig_state, sig_thresholds)
    /\ UNCHANGED <<sig_state, sig_thresholds>>

\* ============================================= calculate_fractal_dimension
\* longest price sequence handed to calculate_fractal_dimension
MaxPrices == 10

\* max_lag argument (default 20), scaled down
MaxLags == {2, 3, 4, 5}

\* the price sequences: positive prices with at most one missing value
PriceSeqs ==
    UNION {{[k \in 1..n |-> IF k = bad THEN NaN ELSE base[k]] :
               base \in [1..n -> {100, 101}], bad \in 0..n} :
           n \in 0..MaxPrices}

\* mutant: the length guard compares with max_lag
too_short_single(ps, max_lag) == Len(ps) < max_lag

\* "if len(prices) < max_lag * 2"
too_short(ps, max_lag) == Len(ps) < max_lag * 2

\* sub = pp[c*lag:(c+1)*lag] contributes R / S: "if S > 0". The std of the
\* log prices is positive iff the prices are not all equal; a NaN price
\* makes S NaN, and NaN > 0 is False.
has_rs_value(ps, lag, c) ==
    LET sub == SubSeq(ps, c * lag + 1, (c + 1) * lag)
    IN  /\ Len(sub) >= 2
        /\ \A k \in 1..Len(sub) : ~pd_isna(sub[k])
        /\ \E k \in 1..Len(sub) : sub[k] # sub[1]

\* "if rs_values": some subseries of the lag contributed a value
lag_has_tau(ps, lag) ==
    LET n == Len(ps) \div lag
    IN  /\ n >= 2
        /\ \E c \in 0..(n - 1) : has_rs_value(ps, lag, c)

\* tau after the loop over lags = range(2, max_lag), from lag on; each
\* entry is identified by the lag whose subseries it averages
RECURSIVE tau_from(_, _, _)
tau_from(ps, lag, max_lag) ==
    IF lag >= max_lag
    THEN << >>
    ELSE (IF lag_has_tau(ps, lag) THEN <<lag>> ELSE << >>)
         \o tau_from(ps, lag + 1, max_lag)

\* the value returned for None
NoFractal == [none |-> TRUE, points |-> << >>]

\* the returned fractal dimension 2 - hurst, identified by the points
\* (log(lags[:len(tau)][k]), log(tau[k])) that np.polyfit is given; the
\* logs of the lags and of the averages are finite, so valid keeps them all
calculate_fractal_dimension(ps, max_lag) ==
    IF too_short(ps, max_lag)
    THEN NoFractal
    ELSE LET tau == tau_from(ps, 2, max_lag)
         IN  IF Len(tau) < 2
             THEN NoFractal
             ELSE [none |-> FALSE,
                   points |-> [k \in 1..Len(tau) |->
                                  [lag |-> 2 + (k - 1), tau_of |-> tau[k]]]]

VARIABLES
    fd_pc,       \* "off", "call", "done"
    fd_prices,   \* prices
    fd_max_lag,  \* max_lag
    fd_tau,      \* tau when the function returns
    fd_result    \* the value returned

fdVars == <<fd_pc, fd_prices, fd_max_lag, fd_tau, fd_result>>

FdIdle ==
    /\ fd_pc = "off"
    /\ fd_prices = << >>
    /\ fd_max_lag = 2
    /\ fd_tau = << >>
    /\ fd_result = NoFractal

FdInit ==
    /\ fd_pc = "call"
    /\ fd_prices \in PriceSeqs
    /\ fd_max_lag \in MaxLags
    /\ fd_tau = << >>
    /\ fd_result = NoFractal

CalcFractal ==
    /\ fd_pc = "call"
    /\ fd_pc' = "done"
    /\ fd_tau' = IF too_short(fd_prices, fd_max_lag)
                 THEN << >>
                 ELSE tau_from(fd_prices, 2, fd_max_lag)
    /\ fd_result' = calculate_fractal_dimension(fd_prices, fd_max_lag)
    /\ UNCHANGED <<fd_prices, fd_max_lag>>

\* the other indicators of the returned state: (put_call_ratio, vix) pairs
IndicatorValues ==
    {[put_call_ratio |-> 130, vix |-> 30], [put_call_ratio |-> 40, vix |-> 15]}

\* calculate_current_state on one window: the indicators, train_hmm_model,
\* the prediction for the most recent day and the returned state
CalcState ==
    /\ cs_pc = "call"
    /\ cs_pc' = "state"
    /\ \E returns \in ReturnsColumns :
         LET n == len_features(returns)
         IN  /\ cs_returns' = returns
             /\ IF n < MinFeatureRows
                THEN NoModel(n)
                ELSE \E counts \in DecodedCounts(n), state_num \in HmmStates :
                       \E r \in [{st \in HmmStates : counts[st] > 0}
                                   -> ReturnStats] :
                         FittedModel(n, counts,
                                     [st \in HmmStates |->
                                         IF counts[st] > 0 THEN r[st]
                                         ELSE [mean |-> NaN, std |-> NaN]],
                                     state_num)
    /\ \E fractal \in {None, 60}, ind \in IndicatorValues :
         sig_state' =
             [fractal_dimension |-> fractal,
              put_call_ratio |-> ind.put_call_ratio,
              vix |-> ind.vix,
              markov_state |-> markov_state_of(hmm_model', state_labels',
                                               current_state_num')]
    /\ UNCHANGED <<sig_thresholds, sig_result>>

\* ============================== the data window of one evaluation date
\* rows of the data frame handed to run_backtest, with the columns that
\* calculate_current_state reads; returns follows close (pct_change) and
\* put_call_ratio follows vix (calculate_put_call_proxy)
SeriesRows ==
    {[close |-> c, vix |-> v,
      returns |-> IF c = 90 THEN -1 ELSE 1,
      put_call_ratio |-> IF v = 30 THEN 130 ELSE 40] :
        c \in ClosePrices, v \in {15, 30}}

\* len(data): the first evaluated index and one row after it
SeriesLen == LookbackWindow + 2

\* mutant: the slice runs one row past the evaluation date
window_data_ahead(d, k) ==
    LET window_start == k - LookbackWindow
        stop == Min(k + 2, Len(d))
    IN  [n \in 1..(stop - window_start) |->
            d[window_start + n] @@ [date |-> index(window_start + n - 1)]]

\* window_data = data.iloc[window_start : i + 1] for i = k, each row with its
\* index label
window_data(d, k) ==
    LET window_start == k - LookbackWindow
        stop == Min(k + 1, Len(d))
    IN  [n \in 1..(stop - window_start) |->
            d[window_start + n] @@ [date |-> index(window_start + n - 1)]]

\* data[col].values[-n:]
last_values(w, col, n) ==
    LET from == IF Len(w) > n THEN Len(w) - n + 1 ELSE 1
    IN  [m \in 1..(Len(w) - from + 1) |-> w[from + m - 1][col]]

\* the dict returned by calculate_current_state(w), given the values that
\* calculate_fractal_dimension and the regime model return on w
current_state_of(w, fractal, markov_state) ==
    [fractal_dimension |-> fractal,
     vix |-> w[Len(w)].vix,
     put_call_ratio |-> w[Len(w)].put_call_ratio,
     markov_state |-> markov_state,
     price |-> w[Len(w)].close,
     date |-> w[Len(w)].date]

VARIABLES
    wn_pc,        \* "off", "data", "evaluated"
    wn_data,      \* a data frame
    wn_other,     \* a second data frame
    wn_i,         \* the evaluation index
    wn_states,    \* the states computed at wn_i on the two frames
    wn_signals    \* the signal types computed at wn_i on the two frames

wnVars == <<wn_pc, wn_data, wn_other, wn_i, wn_states, wn_signals>>

WnIdle ==
    /\ wn_pc = "off"
    /\ wn_data = << >>
    /\ wn_other = << >>
    /\ wn_i = 0
    /\ wn_states = << >>
    /\ wn_signals = << >>

WnInit ==
    /\ wn_pc = "data"
    /\ wn_data \in [1..SeriesLen -> SeriesRows]
    /\ wn_other = << >>
    /\ wn_i = 0
    /\ wn_states = << >>
    /\ wn_signals = << >>

\* iteration i = k of the run_backtest loop up to check_signal, run on
\* wn_data and on a frame that differs from it in one row.  The fractal
\* dimension is a function of the last 60 closes of the window and the
\* regime a function of its returns (the model is fitted with a fixed
\* random_state): equal arguments give equal values.
EvalWindow ==
    /\ wn_pc = "data"
    /\ wn_pc' = "evaluated"
    /\ \E k \in LookbackWindow..(SeriesLen - 1), p \in 1..SeriesLen,
          row \in SeriesRows :
         LET other == [wn_data EXCEPT ![p] = row]
             w1 == window_data(wn_data, k)
             w2 == window_data(other, k)
         IN  \E f1 \in {None, 60}, f2 \in {None, 60},
                m1 \in {"Volatile", "Bull"}, m2 \in {"Volatile", "Bull"} :
               /\ last_values(w1, "close", 60) = last_values(w2, "close", 60)
                     => f1 = f2
               /\ last_values(w1, "returns", Len(w1))
                     = last_values(w2, "returns", Len(w2)) => m1 = m2
               /\ wn_other' = other
               /\ wn_i' = k
               /\ wn_states' = <<current_state_of(w1, f1, m1),
                                 current_state_of(w2, f2, m2)>>
               /\ wn_signals' =
                    <<check_signal(current_state_of(w1, f1, m1),
                                   DefaultThresholds)[1],
                      check_signal(current_state_of(w2, f2, m2),
                                   DefaultThresholds)[1]>>
    /\ UNCHANGED wn_data

\* =============================================== calculate_put_call_proxy
\* rolling(5)
RollingWindow == 5

\* len(data): the row pct_change leaves NaN and one full rolling window
ProxyRows == RollingWindow + 1

\* data['vix'] values; data['returns'] values in percent
VixValues == {5, 20, 150}
ReturnValues == {-10, 10}

\* the returns column: NaN in the first row (pct_change), at most one more
\* NaN after it
ReturnSeqs ==
    {r \in [1..ProxyRows -> ReturnValues \cup {NaN}] :
        /\ r[1] = NaN
        /\ Cardinality({k \in 2..ProxyRows : r[k] = NaN}) <= 1}

\* a float that may be NaN
Float(x) == [nan |-> FALSE, value |-> x]
FloatNaN == [nan |-> TRUE, value |-> RInt(0)]

RECURSIVE sum_returns(_, _, _)
sum_returns(r, from, to) ==
    IF from > to THEN 0 ELSE r[from] + sum_returns(r, from + 1, to)

\* returns.rolling(5).mean() at row k, as a fraction: NaN unless the five
\* rows ending at k exist and hold no NaN
rolling_mean(r, k) ==
    IF k < RollingWindow
       \/ \E m \in (k - RollingWindow + 1)..k : pd_isna(r[m])
    THEN FloatNaN
    ELSE Float(Rat(sum_returns(r, k - RollingWindow + 1, k),
                   RollingWindow * 100))

\* mutant: only the upper limit is applied
clip_upper(x, lower, upper) ==
    IF x.nan THEN x
    ELSE IF RLe(upper, x.value) THEN Float(upper)
    ELSE x

\* Series.clip(lower, upper): NaN stays NaN
clip(x, lower, upper) ==
    IF x.nan THEN x
    ELSE IF RLe(x.value, lower) THEN Float(lower)
    ELSE IF RLe(upper, x.value) THEN Float(upper)
    ELSE x

\* the proxy at row k of the columns vix_col and returns_col
calculate_put_call_proxy(vix_col, returns_col, k) ==
    LET vix_normalized == Rat(vix_col[k], 20)
        mean5 == rolling_mean(returns_col, k)
        price_momentum == RMul(RNeg(mean5.value), RInt(10))
        pc_proxy ==
            IF mean5.nan
            THEN FloatNaN
            ELSE Float(RAdd(RAdd(Rat(8, 10),
                                 RMul(RSub(vix_normalized, RInt(1)),
                                      Rat(3, 10))),
                            price_momentum))
    IN  clip(pc_proxy, Rat(3, 10), Rat(25, 10))

VARIABLES
    px_pc,        \* "off", "call", "done"
    px_vix,       \* data['vix']
    px_returns,   \* data['returns']
    px_result     \* the returned series

pxVars == <<px_pc, px_vix, px_returns, px_result>>

PxIdle ==
    /\ px_pc = "off"
    /\ px_vix = << >>
    /\ px_returns = << >>
    /\ px_result = << >>

PxInit ==
    /\ px_pc = "call"
    /\ px_vix \in [1..ProxyRows -> VixValues]
    /\ px_returns \in ReturnSeqs
    /\ px_result = << >>

CalcProxy ==
    /\ px_pc = "call"
    /\ px_pc' = "done"
    /\ px_result' = [k \in 1..ProxyRows |->
                        calculate_put_call_proxy(px_vix, px_returns, k)]
    /\ UNCHANGED <<px_vix, px_returns>>

\* ========================================================= specifications
vars == <<btVars, dipVars, sigVars, csVars, fdVars, wnVars, pxVars>>

\* a backtest run
Init == BtInit /\ DipIdle /\ SigIdle /\ CsIdle /\ FdIdle /\ WnIdle /\ PxIdle

Next ==
    \/ (StartRun /\ UNCHANGED <<dipVars, sigVars, csVars, fdVars, wnVars, pxVars>>)
    \/ (EvalDay /\ UNCHANGED <<dipVars, sigVars, csVars, fdVars, wnVars, pxVars>>)
    \/ (MonitorDay /\ UNCHANGED <<dipVars, sigVars, csVars, fdVars, wnVars, pxVars>>)
    \/ (CloseTrade /\ UNCHANGED <<dipVars, sigVars, csVars, fdVars, wnVars, pxVars>>)
    \/ (FinishRun /\ UNCHANGED <<dipVars, sigVars, csVars, fdVars, wnVars, pxVars>>)
    \/ (AnalyzeResults /\ UNCHANGED <<dipVars, sigVars, csVars, fdVars, wnVars, pxVars>>)
    \/ (WriteReport /\ UNCHANGED <<dipVars, sigVars, csVars, fdVars, wnVars, pxVars>>)

Spec == Init /\ [][Next]_vars

\* a run of the dip-buy script
InitDip ==
    DipInit /\ BtIdle /\ SigIdle /\ CsIdle /\ FdIdle /\ WnIdle /\ PxIdle

NextDip ==
    \/ (DipDay /\ UNCHANGED <<btVars, sigVars, csVars, fdVars, wnVars, pxVars>>)
    \/ (DipResults /\ UNCHANGED <<btVars, sigVars, csVars, fdVars, wnVars, pxVars>>)

SpecDip == InitDip /\ [][NextDip]_vars

\* one call of check_signal
InitSig ==
    SigInit /\ BtIdle /\ DipIdle /\ CsIdle /\ FdIdle /\ WnIdle /\ PxIdle

NextSig == CheckSignal /\ UNCHANGED <<btVars, dipVars, csVars, fdVars, wnVars, pxVars>>

SpecSig == InitSig /\ [][NextSig]_vars

\* the main loop of the dip-buy script on falling price paths
InitDrop ==
    DropInit /\ BtIdle /\ SigIdle /\ CsIdle /\ FdIdle /\ WnIdle /\ PxIdle

NextDrop == DropDay /\ UNCHANGED <<btVars, sigVars, csVars, fdVars, wnVars, pxVars>>

SpecDrop == InitDrop /\ [][NextDrop]_vars

\* calculate_current_state followed by check_signal on the returned state
InitState ==
    /\ CsInit
    /\ BtIdle
    /\ DipIdle
    /\ FdIdle
    /\ WnIdle
    /\ PxIdle
    /\ sig_state = [fractal_dimension |-> None, put_call_ratio |-> 100,
                    vix |-> 22, markov_state |-> "Unknown"]
    /\ sig_thresholds \in ThresholdConfigs
    /\ sig_result = << >>

NextState ==
    \/ (CalcState /\ UNCHANGED <<btVars, dipVars, fdVars, wnVars, pxVars>>)
    \/ (cs_pc = "state" /\ CheckSignal
          /\ UNCHANGED <<btVars, dipVars, csVars, fdVars, wnVars, pxVars>>)

SpecState == InitState /\ [][NextState]_vars

\* one call of calculate_fractal_dimension
InitFractal ==
    FdInit /\ BtIdle /\ DipIdle /\ SigIdle /\ CsIdle /\ WnIdle /\ PxIdle

NextFractal == CalcFractal /\ UNCHANGED <<btVars, dipVars, sigVars, csVars, wnVars, pxVars>>

SpecFractal == InitFractal /\ [][NextFractal]_vars

\* one evaluation date of a backtest on two data frames
InitWindow ==
    WnInit /\ BtIdle /\ DipIdle /\ SigIdle /\ CsIdle /\ FdIdle /\ PxIdle

NextWindow ==
    EvalWindow /\ UNCHANGED <<btVars, dipVars, sigVars, csVars, fdVars, pxVars>>

SpecWindow == InitWindow /\ [][NextWindow]_vars

\* one call of calculate_put_call_proxy
InitProxy ==
    /\ PxInit
    /\ BtIdle /\ DipIdle /\ SigIdle /\ CsIdle /\ FdIdle /\ WnIdle

NextProxy ==
    CalcProxy /\ UNCHANGED <<btVars, dipVars, sigVars, csVars, fdVars, wnVars>>

SpecProxy == InitProxy /\ [][NextProxy]_vars


\* ================================================================= claims
ExitRuleRun == backtester \in {"Portfolio", "FullyInvested"}

ExitReasons == {"GAIN TARGET", "STOP LOSS", "TIME EXIT", "END OF DATA"}

Closes == pos.open /\ ~pos'.open

\* C1: in PortfolioBacktester and FullyInvestedBacktester every opened
\* position is closed by appending exactly one trade record, for that
\* position, whose exit reason is one of the four reasons (never None) and
\* whose days_held does not exceed hold_days; nothing else appends a trade,
\* and no position is left open when the run returns.
C1_OneTradePerPosition ==
    /\ [][ExitRuleRun =>
            /\ Closes =>
                 /\ Len(trades') = Len(trades) + 1
                 /\ SubSeq(trades', 1, Len(trades)) = trades
                 /\ LET t == trades'[Len(trades')]
                    IN  /\ t.entry_idx = pos.entry_idx
                        /\ t.exit_reason \in ExitReasons
                        /\ t.days_held >= 0
                        /\ t.days_held <= config.hold_days
            /\ ~Closes => trades' = trades
            /\ (pos.open /\ pos'.open) => pos'.entry_idx = pos.entry_idx
          ]_vars
    /\ [](ExitRuleRun /\ pc = "done" => ~pos.open)

\* two positions were opened and closed, by different exit paths
C1_Witness ==
    /\ ExitRuleRun
    /\ pc = "done"
    /\ Len(trades) = 2
    /\ trades[1].exit_reason = "TIME EXIT"
    /\ trades[2].exit_reason = "END OF DATA"

\* C2: the exit conditions are tested in the order gain target, stop loss,
\* maximum hold: a trade whose sleeve return at exit is at or above the
\* target is a GAIN TARGET exit even on the last hold day, one at or below
\* the stop (and below the target) is a STOP LOSS exit even on the last hold
\* day, and TIME EXIT is recorded only when neither holds.
C2_ExitOrder ==
    ExitRuleRun =>
        \A k \in 1..Len(trades) :
            LET t == trades[k]
                gain == RGe(t.spxs_return, RInt(config.gain_target))
                stop == RLe(t.spxs_return, RInt(-config.stop_loss))
                last == t.days_held >= config.hold_days
            IN  /\ gain => t.exit_reason = "GAIN TARGET"
                /\ (~gain /\ stop) => t.exit_reason = "STOP LOSS"
                /\ (~gain /\ ~stop /\ last) => t.exit_reason = "TIME EXIT"
                /\ t.exit_reason = "TIME EXIT" => (~gain /\ ~stop /\ last)
                /\ t.exit_reason = "STOP LOSS" => (~gain /\ stop)

\* the last hold day is also a gain-target day, and another run's last hold
\* day is also a stop-loss day
C2_Witness ==
    /\ ExitRuleRun
    /\ config.hold_days = MaxHold
    /\ Len(trades) = 1
    /\ trades[1].days_held = config.hold_days
    /\ trades[1].exit_reason = "GAIN TARGET"

\* C3: at most one position at a time in the three trade backtesters: each
\* trade is entered strictly after the previous trade's exit day, the list
\* is ordered by entry date, and a position being monitored was entered
\* after the last recorded exit.
C3_OnePositionAtATime ==
    backtester \in {"Portfolio", "FullyInvested", "Strategy"} =>
        /\ \A k \in 1..(Len(trades) - 1) :
              /\ trades[k + 1].entry_date > trades[k].exit_date
              /\ trades[k + 1].entry_idx > trades[k].exit_idx
              /\ trades[k + 1].entry_date > trades[k].entry_date
        /\ \A k \in 1..Len(trades) :
              /\ trades[k].entry_idx <= trades[k].exit_idx
              /\ pos.open => pos.entry_idx > trades[k].exit_idx

\* a second trade entered on the day right after a multi-day first trade
C3_Witness ==
    /\ backtester \in {"Portfolio", "FullyInvested", "Strategy"}
    /\ Len(trades) = 2
    /\ trades[1].exit_idx > trades[1].entry_idx
    /\ trades[2].entry_idx = trades[1].exit_idx + 1


\* amount spent in year y according to the recorded buys
RECURSIVE spent_in(_, _)
spent_in(bs, y) ==
    IF bs = << >>
    THEN 0
    ELSE (IF bs[1].year = y THEN bs[1].amount ELSE 0) + spent_in(Tail(bs), y)

BuyYears == {buys[k].year : k \in 1..Len(buys)}

\* C4: after any sequence of days of the dip-buy loop, the amount spent in
\* each calendar year -- as booked in annual_spending and as the sum of that
\* year's recorded buys -- does not exceed annual_cap.
C4_AnnualCap ==
    /\ \A y \in DOMAIN annual_spending : annual_spending[y] <= annual_cap
    /\ \A y \in BuyYears :
          /\ y \in DOMAIN annual_spending
          /\ spent_in(buys, y) = annual_spending[y]
          /\ spent_in(buys, y) <= annual_cap

\* a year's budget is used up exactly and a later trigger of that year was
\* skipped
C4_Witness ==
    /\ dip_pc = "loop"
    /\ \E y \in DOMAIN annual_spending : annual_spending[y] = annual_cap
    /\ Len(skips) >= 1
    /\ Len(buys) >= 2

\* the day just processed: its price passed the reset test
ResetPrice ==
    /\ last_10k_price # None
    /\ prices'[Len(prices')] * 100 > last_10k_price * reset_threshold

\* C5: over each day of the dip-buy loop buy_sequence stays the same,
\* increases by exactly 1, or becomes exactly 0 with the day's price above
\* last_10k_price x reset_threshold; it never decreases otherwise.
C5_SequenceSteps ==
    [][Len(prices') = Len(prices) + 1 =>
          \/ buy_sequence' = buy_sequence
          \/ buy_sequence' = buy_sequence + 1
          \/ (buy_sequence' = 0 /\ ResetPrice)
      ]_vars

\* a progression of at least two buys was reset
C5_Witness ==
    /\ Len(resets) >= 1
    /\ buy_sequence = 0
    /\ Len(buys) >= 2
    /\ buys[Len(buys)].sequence >= 2
    /\ resets[Len(resets)].date > buys[Len(buys)].date

\* multiples k of base_buy_amount, 1 <= k <= n, that fit in remaining
Fitting(n, remaining) == {k \in 1..n : base_buy_amount * k <= remaining}

\* C7: an executed purchase buys base_buy_amount x k for the largest k in
\* 1..sequence+1 that fits in annual_cap - annual_spending[year] (so the
\* ideal amount when it fits), and a trigger is skipped only when no such k
\* exists.
C7_LargestFittingMultiple ==
    [][/\ Len(buys') = Len(buys) + 1 =>
            LET b == buys'[Len(buys')]
                remaining == annual_cap - Get(annual_spending, b.year, 0)
                K == Fitting(b.sequence, remaining)
            IN  /\ b.sequence = buy_sequence'
                /\ K # {}
                /\ \E k \in K : /\ b.amount = base_buy_amount * k
                                /\ \A m \in K : m <= k
                /\ base_buy_amount * b.sequence <= remaining
                       => b.amount = base_buy_amount * b.sequence
       /\ Len(skips') = Len(skips) + 1 =>
            LET sk == skips'[Len(skips')]
                remaining == annual_cap - Get(annual_spending, sk.year, 0)
            IN  /\ Fitting(buy_sequence' + 1, remaining) = {}
                /\ buys' = buys
      ]_vars

\* a purchase was reduced below the ideal amount but above one base unit
C7_Witness ==
    \E k \in 1..Len(buys) :
        /\ buys[k].amount < base_buy_amount * buys[k].sequence
        /\ buys[k].amount > base_buy_amount


\* the four SHORT conditions of the call's state and thresholds
ShortAll ==
    /\ sig_state.fractal_dimension # None
    /\ sig_state.fractal_dimension < sig_thresholds.fractal_max
    /\ sig_state.put_call_ratio > sig_thresholds.put_call_min
    /\ sig_state.vix > sig_thresholds.vix_min
    /\ sig_state.markov_state = sig_thresholds.markov_state

\* the four LONG conditions, with the defaults of the missing keys
LongAll ==
    /\ sig_state.fractal_dimension # None
    /\ sig_state.fractal_dimension
           < (IF "fractal_max_long" \in DOMAIN sig_thresholds
              THEN sig_thresholds.fractal_max_long ELSE 80)
    /\ sig_state.put_call_ratio
           < (IF "put_call_max_long" \in DOMAIN sig_thresholds
              THEN sig_thresholds.put_call_max_long ELSE 50)
    /\ sig_state.vix
           < (IF "vix_max_long" \in DOMAIN sig_thresholds
              THEN sig_thresholds.vix_max_long ELSE 20)
    /\ sig_state.markov_state
           = (IF "markov_state_long" \in DOMAIN sig_thresholds
              THEN sig_thresholds.markov_state_long ELSE "Bull")

\* C6: check_signal returns one of SHORT, LONG, no-signal, and whenever the
\* SHORT and the LONG conditions all hold for the same state and thresholds
\* it returns SHORT.
C6_ShortPriority ==
    sig_result # << >> =>
        /\ sig_result[1] \in {"SHORT", "LONG", "None"}
        /\ (ShortAll /\ LongAll) => sig_result[1] = "SHORT"

\* a call whose state satisfies both condition sets
C6_Witness ==
    /\ sig_result # << >>
    /\ ShortAll
    /\ LongAll
    /\ sig_result[1] = "SHORT"


\* C8: within one trade of the exit-rule backtesters the instrument price of
\* the entry, of every exit check and of the exit comes from one source:
\* all from the instrument's own prices or all from the synthetic model.
C8_SinglePricingSource ==
    ExitRuleRun =>
        /\ \A k \in 1..Len(trades) :
              /\ trades[k].exit_real = trades[k].entry_real
              /\ trades[k].checks_real \subseteq {trades[k].entry_real}
        /\ pos.open => pos.checks_real \subseteq {pos.use_real_spxs}

\* the exit price recorded with the trade is the last row's
LastRowExit(t) ==
    IF backtester = "FullyInvested"
    THEN t.exit_spy_price = RInt(iloc(data, "spy", DataLen - 1))
    ELSE t.exit_price_spy = RInt(iloc(data, "close", DataLen - 1))

\* C9: a position whose hold horizon reaches past the last row and that no
\* gain target or stop loss closed is closed on the last row with reason
\* END OF DATA; END OF DATA is recorded only for entries with
\* entry index + hold_days beyond the last index.
C9_EndOfData ==
    ExitRuleRun =>
        \A k \in 1..Len(trades) :
            LET t == trades[k]
                beyond == t.entry_idx + config.hold_days > DataLen - 1
            IN  /\ (beyond /\ t.exit_reason \notin {"GAIN TARGET", "STOP LOSS"})
                      => t.exit_reason = "END OF DATA"
                /\ t.exit_reason = "END OF DATA" =>
                      /\ beyond
                      /\ t.exit_idx = DataLen - 1
                      /\ t.exit_date = index(DataLen - 1)
                      /\ t.days_held = DataLen - 1 - t.entry_idx
                      /\ LastRowExit(t)

\* a position monitored for a day before the data ran out
C9_Witness ==
    /\ ExitRuleRun
    /\ Len(trades) >= 1
    /\ trades[Len(trades)].exit_reason = "END OF DATA"
    /\ trades[Len(trades)].days_held >= 1
    /\ trades[Len(trades)].days_held < config.hold_days

\* C10: an error raised by the indicator computation of a date skips that
\* date only: the trade list, the signal list, the portfolio value and the
\* last-exit marker are unchanged, no position is opened, the loop goes on
\* with the next date, and the run returns only after the last date.
C10_ErrorSkipsOneDate ==
    /\ [][exc' = "Exception" =>
            /\ pc = "loop"
            /\ pc' = "loop"
            /\ i' = i + 1
            /\ trades' = trades
            /\ signals' = signals
            /\ portfolio_value' = portfolio_value
            /\ last_trade_exit' = last_trade_exit
            /\ spy_shares' = spy_shares
            /\ cumulative_gain' = cumulative_gain
            /\ pos' = pos
            /\ ~pos'.open
          ]_vars
    /\ [](pc = "done" => i = DataLen)

\* an error on a date after a closed trade left the trade and the
\* portfolio value it produced in place
C10_Witness ==
    /\ exc = "Exception"
    /\ backtester = "Portfolio"
    /\ Len(trades) = 1
    /\ portfolio_value = trades[1].portfolio_after
    /\ last_trade_exit = trades[1].exit_date
    /\ pc = "loop"

\* C11: a date skipped because its computation raised an error is logged:
\* right after the skip the output ends with a line for the skipped date.
C11_SkipIsLogged ==
    exc = "Exception" =>
        /\ Len(stdout) > 0
        /\ stdout[Len(stdout)].line \notin {"Running", "Trade", "Signal"}
        /\ stdout[Len(stdout)].date = index(i - 1)

\* C12: a state whose fractal_dimension is None gets no signal from
\* check_signal under every threshold configuration (the call returns);
\* a SHORT or LONG result implies a non-None fractal_dimension.
C12_NullFractalNoSignal ==
    sig_result # << >> =>
        /\ sig_state.fractal_dimension = None => sig_result[1] = "None"
        /\ sig_result[1] \in {"SHORT", "LONG"}
              => sig_state.fractal_dimension # None
        /\ sig_state.fractal_dimension = None
              => ~sig_result[2].fractal

\* a state with no fractal dimension whose other three SHORT conditions hold
C12_Witness ==
    /\ sig_result # << >>
    /\ sig_state.fractal_dimension = None
    /\ sig_state.put_call_ratio > sig_thresholds.put_call_min
    /\ sig_state.vix > sig_thresholds.vix_min
    /\ sig_state.markov_state = sig_thresholds.markov_state
    /\ sig_result[1] = "None"

\* C13: when train_hmm_model returns no model the reported regime is
\* 'Unknown'; with an 'Unknown' regime the regime condition of the SHORT and
\* of the LONG threshold set is false and check_signal returns no signal.
C13_UnknownRegimeNoSignal ==
    cs_pc = "state" =>
        /\ hmm_model = None => sig_state.markov_state = "Unknown"
        /\ n_features < MinFeatureRows => hmm_model = None
        /\ (sig_state.markov_state = "Unknown" /\ sig_result # << >>) =>
              /\ sig_state.markov_state # sig_thresholds.markov_state
              /\ sig_state.markov_state
                    # Get(sig_thresholds, "markov_state_long", "Bull")
              /\ ~sig_result[2].markov
              /\ sig_result[1] = "None"

\* one row short of a model, with the three other SHORT conditions true
C13_Witness ==
    /\ cs_pc = "state"
    /\ n_features = MinFeatureRows - 1
    /\ hmm_model = None
    /\ sig_result # << >>
    /\ sig_result[1] = "None"
    /\ sig_result[2].fractal
    /\ sig_result[2].put_call
    /\ sig_result[2].vix

\* C14: the keys of the label map returned by train_hmm_model are exactly
\* the states with at least one day in the decoded state sequence.
C14_LabelsOnlyForObserved ==
    (cs_pc = "state" /\ hmm_model # None) =>
        /\ DOMAIN state_labels = {st \in HmmStates : state_count[st] > 0}
        /\ DOMAIN state_stats = DOMAIN state_labels
        /\ \A st \in DOMAIN state_labels :
              state_stats[st].count = state_count[st]

\* two states never decoded, one decoded for a single day
C14_Witness ==
    /\ cs_pc = "state"
    /\ hmm_model # None
    /\ Cardinality(DOMAIN state_labels) = 2
    /\ \E st \in DOMAIN state_labels : state_count[st] = 1
    /\ \E st \in HmmStates : state_count[st] = 0

\* C15: with a fitted model the regime reported for the most recent day is
\* one of the labels of the fitted label map, whichever state is predicted.
C15_LabelInFittedMap ==
    (cs_pc = "state" /\ hmm_model # None) =>
        \E st \in DOMAIN state_labels :
            state_labels[st] = sig_state.markov_state

\* the lags of range(2, max_lag) for which some subseries of the call's
\* prices has a positive standard deviation
LagsWithValue ==
    {lag \in 2..(fd_max_lag - 1) :
        \E c \in 0..((Len(fd_prices) \div lag) - 1) :
            LET vals == {fd_prices[k] : k \in (c * lag + 1)..((c + 1) * lag)}
            IN  NaN \notin vals /\ Cardinality(vals) >= 2}

\* C16: calculate_fractal_dimension returns None for every price sequence
\* shorter than 2 x max_lag, and whenever fewer than 2 lags produced a
\* rescaled-range value; the call returns in each of these cases.
C16_NullFractal ==
    fd_pc = "done" =>
        /\ Len(fd_prices) < 2 * fd_max_lag => fd_result.none
        /\ Cardinality(LagsWithValue) < 2 => fd_result.none
        /\ Len(fd_tau) < 2 => fd_result.none

\* a sequence long enough for max_lag whose prices vary, with only one lag
\* producing a value
C16_Witness ==
    /\ fd_pc = "done"
    /\ Len(fd_prices) >= 2 * fd_max_lag
    /\ fd_max_lag >= 4
    /\ Cardinality(LagsWithValue) = 1
    /\ Len(fd_tau) = 1
    /\ fd_result.none

\* the days d, d+1, d+2 just processed each closed 6% below the day before,
\* under a cap of 30000, with no purchase before day d
ThreeDrops(d) ==
    /\ annual_cap = 3 * base_buy_amount
    /\ Len(prices) = d + 3
    /\ \A k \in 0..2 : prices[d + k + 1] * 100 = 94 * prices[d + k]
    /\ \A b \in 1..Len(buys) : buys[b].date >= d

\* the calendar years of the purchases and skips recorded for day d
YearsOf(d) ==
    {buys[b].year : b \in {x \in 1..Len(buys) : buys[x].date = d}}
    \cup {skips[b].year : b \in {x \in 1..Len(skips) : skips[x].date = d}}

\* C17: three consecutive days of one calendar year, each 6% down, with
\* base_buy_amount = 10000, annual_cap = 30000 and no earlier purchase:
\* 10000 is bought on the first, 20000 on the second, and the third is
\* recorded as skipped with no purchase.
C17_ThreeDropScenario ==
    \A d \in 1..(MaxDays - 2) :
        (ThreeDrops(d) /\ \A k \in 0..2 : YearsOf(d + k) \subseteq {year}) =>
            /\ Len(buys) = 2
            /\ buys[1].date = d
            /\ buys[1].amount = base_buy_amount
            /\ buys[2].date = d + 1
            /\ buys[2].amount = 2 * base_buy_amount
            /\ \E k \in 1..Len(skips) :
                  /\ skips[k].date = d + 2
                  /\ skips[k].remaining = 0
                  /\ skips[k].wanted = 3 * base_buy_amount
            /\ total_invested = 3 * base_buy_amount
            /\ buy_sequence = 2

\* the scenario after a first day on which the price rose
C17_Witness ==
    /\ ThreeDrops(2)
    /\ prices[2] > prices[1]
    /\ YearsOf(2) \cup YearsOf(3) \cup YearsOf(4) = {year}
    /\ Len(buys) = 2
    /\ Len(skips) = 1

\* C18: in PortfolioBacktester the portfolio value is carried from trade to
\* trade: the first trade starts from initial_capital, each later trade
\* from the previous trade's portfolio_after, and the value returned is the
\* last trade's portfolio_after (initial_capital when there is no trade).
C18_ValueCarried ==
    (backtester = "Portfolio" /\ pc \in {"loop", "monitor", "done"}) =>
        /\ Len(trades) >= 1 =>
              trades[1].portfolio_before = RInt(config.initial_capital)
        /\ \A k \in 1..(Len(trades) - 1) :
              trades[k + 1].portfolio_before = trades[k].portfolio_after
        /\ portfolio_value =
              IF trades = << >> THEN RInt(config.initial_capital)
              ELSE trades[Len(trades)].portfolio_after
        /\ pc = "done" => final_portfolio_value = portfolio_value

\* a finished run with two trades, the first of which changed the value
C18_Witness ==
    /\ backtester = "Portfolio"
    /\ pc = "done"
    /\ Len(trades) = 2
    /\ trades[1].portfolio_after # trades[1].portfolio_before
    /\ trades[2].portfolio_before # RInt(config.initial_capital)
    /\ final_portfolio_value = trades[2].portfolio_after

\* sleeve and reserve of trade k at entry, and the price ratios over the hold
Sleeve(k) ==
    IF backtester = "FullyInvested"
    THEN RMul(trades[k].spxs_shares, trades[k].entry_spxs_price)
    ELSE trades[k].position_value

Reserve(k) ==
    IF backtester = "FullyInvested"
    THEN RMul(trades[k].spy_shares_held, trades[k].entry_spy_price)
    ELSE RSub(trades[k].portfolio_before, trades[k].position_value)

BenchmarkGrowth(k) ==
    IF backtester = "FullyInvested"
    THEN RDiv(trades[k].exit_spy_price, trades[k].entry_spy_price)
    ELSE RDiv(trades[k].exit_price_spy, trades[k].entry_price_spy)

InstrumentGrowth(k) ==
    IF backtester = "FullyInvested"
    THEN RDiv(trades[k].exit_spxs_price, trades[k].entry_spxs_price)
    ELSE RDiv(trades[k].exit_price_spxs, trades[k].entry_price_spxs)

\* the portfolio value when trade k was entered: the value carried from the
\* previous trade (FullyInvested: the shares held, at the entry day's price)
ValueAtEntry(k) ==
    IF backtester = "FullyInvested"
    THEN RMul(IF k = 1
              THEN RDiv(RInt(config.initial_capital),
                        RInt(iloc(data, "spy", LookbackWindow)))
              ELSE trades[k - 1].spy_shares_after,
              trades[k].entry_spy_price)
    ELSE IF k = 1 THEN RInt(config.initial_capital)
         ELSE trades[k - 1].portfolio_after

\* C19: every trade's sleeve is position_size percent of the portfolio value
\* current at entry, sleeve plus reserve is that value, and the value after
\* the trade is reserve x (1 + benchmark return) + sleeve x (1 + instrument
\* return) over the hold.
C19_SleeveOfCurrentValue ==
    ExitRuleRun =>
        \A k \in 1..Len(trades) :
            /\ trades[k].portfolio_before = ValueAtEntry(k)
            /\ Sleeve(k) = RMul(ValueAtEntry(k), Pct(config.position_size))
            /\ RAdd(Sleeve(k), Reserve(k)) = ValueAtEntry(k)
            /\ trades[k].portfolio_after =
                  RAdd(RMul(Reserve(k), BenchmarkGrowth(k)),
                       RMul(Sleeve(k), InstrumentGrowth(k)))

\* a second trade entered at a value that differs from the initial capital
C19_Witness ==
    /\ ExitRuleRun
    /\ Len(trades) = 2
    /\ trades[1].portfolio_after # trades[1].portfolio_before
    /\ InstrumentGrowth(1) # RInt(1)
    /\ BenchmarkGrowth(1) # RInt(1)
    /\ Sleeve(2) # Sleeve(1)

\* the day just processed passed the reset test with buy_sequence > 0
ResetDay ==
    /\ Len(prices') = Len(prices) + 1
    /\ last_10k_price # None
    /\ prices'[Len(prices')] * 100 > last_10k_price * reset_threshold
    /\ buy_sequence > 0

\* the day just processed was a buy trigger
TriggerDay ==
    /\ Len(prices') = Len(prices) + 1
    /\ triggered(prices'[Len(prices')], prices[Len(prices)])

\* C20 (case analysis): a day of the dip-buy loop never passes the reset
\* test with buy_sequence > 0 and a buy trigger together, so the order of
\* the two checks within a day has no observable effect.
C20_ResetExcludesTrigger ==
    [][~(ResetDay /\ TriggerDay)]_vars


\* the day just processed is a loop iteration
DipDayStep == Len(prices') = Len(prices) + 1

\* single-day return of the day just processed is <= -5%
SingleDayDrop ==
    (prices'[Len(prices')] - prices[Len(prices)]) * 100
        <= dip_threshold * prices[Len(prices)]

\* a purchase exists and the day's price is <= -5% relative to it
DrawdownDrop ==
    /\ last_purchase_price # None
    /\ (prices'[Len(prices')] - last_purchase_price) * 100
           <= dip_threshold * last_purchase_price

\* C21: a day of the dip-buy loop records a purchase or a skip exactly when
\* its single-day return is <= -5% or its price is <= -5% relative to
\* last_purchase_price (once a purchase exists); a day on which both hold
\* records exactly one purchase or one skip, never both and never two, and
\* buy_sequence increases by at most 1 per day.
C21_SingleTriggerPerDay ==
    [][DipDayStep =>
          /\ Len(buys') + Len(skips') =
                Len(buys) + Len(skips)
                + (IF SingleDayDrop \/ DrawdownDrop THEN 1 ELSE 0)
          /\ Len(buys') >= Len(buys)
          /\ Len(skips') >= Len(skips)
          /\ buy_sequence' <= buy_sequence + 1
      ]_vars

\* a day fell 5% both from the day before and from the last purchase price,
\* and that day holds exactly one purchase and no skip
C21_Witness ==
    \E k \in 2..Len(buys) :
        LET b == buys[k]
        IN  /\ (b.price - prices[b.date]) * 100
                   <= dip_threshold * prices[b.date]
            /\ (b.price - buys[k - 1].price) * 100
                   <= dip_threshold * buys[k - 1].price
            /\ \A m \in 1..Len(buys) : buys[m].date = b.date => m = k
            /\ \A m \in 1..Len(skips) : skips[m].date # b.date

\* sum of the amounts of the recorded buys
RECURSIVE sum_amounts(_)
sum_amounts(bs) ==
    IF bs = << >> THEN 0 ELSE bs[1].amount + sum_amounts(Tail(bs))

\* sum of the values of the dict spending
RECURSIVE sum_values(_)
sum_values(spending) ==
    IF DOMAIN spending = {}
    THEN 0
    ELSE LET y == CHOOSE y \in DOMAIN spending : TRUE
         IN  spending[y]
             + sum_values([z \in DOMAIN spending \ {y} |-> spending[z]])

\* C22: the dip-buy policy never sells: over every step qqq_shares and
\* total_invested do not decrease, total_invested equals the sum of the
\* executed purchase amounts and the sum of annual_spending over all years,
\* and the final value is qqq_shares marked at the last price of the series.
C22_NeverSells ==
    [][/\ RLe(qqq_shares, qqq_shares')
       /\ total_invested <= total_invested'
       /\ total_invested' = sum_amounts(buys')
       /\ total_invested' = sum_values(annual_spending')
       /\ dip_pc' = "done" =>
             /\ final_value' = RMul(qqq_shares', RInt(prices'[Len(prices')]))
             /\ qqq_shares' = qqq_shares
      ]_vars

\* purchases in two calendar years were marked at a last price that differs
\* from the first price of the series
C22_Witness ==
    /\ dip_pc = "done"
    /\ Len(buys) >= 2
    /\ Cardinality(DOMAIN annual_spending) = 2
    /\ prices[Len(prices)] # prices[1]
    /\ final_value = RMul(qqq_shares, RInt(prices[Len(prices)]))


\* the two frames hold the same rows at the indices of the window of wn_i
AgreeOnWindow ==
    \A n \in (wn_i - LookbackWindow + 1)..(wn_i + 1) :
        wn_data[n] = wn_other[n]

\* C23: the state and the signal computed for evaluation index i on two
\* data frames that agree on the indices i - lookback_window .. i are the
\* same, wherever else the frames differ -- in particular after i.
C23_NoLookAhead ==
    wn_pc = "evaluated" /\ AgreeOnWindow
        => /\ wn_states[1] = wn_states[2]
           /\ wn_signals[1] = wn_signals[2]

\* two frames that differ in the row after the evaluation index gave the
\* same SHORT signal
C23_Witness ==
    /\ wn_pc = "evaluated"
    /\ AgreeOnWindow
    /\ wn_i + 1 < SeriesLen
    /\ wn_data[wn_i + 2] # wn_other[wn_i + 2]
    /\ wn_signals = <<"SHORT", "SHORT">>
    /\ wn_states[1] = wn_states[2]


\* the SHORT condition map of the call, entry by entry
ShortMap ==
    [fractal  |-> /\ sig_state.fractal_dimension # None
                  /\ sig_state.fractal_dimension < sig_thresholds.fractal_max,
     put_call |-> sig_state.put_call_ratio > sig_thresholds.put_call_min,
     vix      |-> sig_state.vix > sig_thresholds.vix_min,
     markov   |-> sig_state.markov_state = sig_thresholds.markov_state]

\* the LONG condition map of the call, entry by entry
LongMap ==
    [fractal  |-> /\ sig_state.fractal_dimension # None
                  /\ sig_state.fractal_dimension
                       < (IF "fractal_max_long" \in DOMAIN sig_thresholds
                          THEN sig_thresholds.fractal_max_long ELSE 80),
     put_call |-> sig_state.put_call_ratio
                       < (IF "put_call_max_long" \in DOMAIN sig_thresholds
                          THEN sig_thresholds.put_call_max_long ELSE 50),
     vix      |-> sig_state.vix
                       < (IF "vix_max_long" \in DOMAIN sig_thresholds
                          THEN sig_thresholds.vix_max_long ELSE 20),
     markov   |-> sig_state.markov_state
                       = (IF "markov_state_long" \in DOMAIN sig_thresholds
                          THEN sig_thresholds.markov_state_long ELSE "Bull")]

ConditionKeys == {"fractal", "put_call", "vix", "markov"}

\* C24: check_signal returns SHORT exactly when the four SHORT conditions
\* hold, LONG exactly when they do not all hold and the four LONG conditions
\* hold, and no-signal otherwise; a no-signal result carries the SHORT map
\* (with a false entry), a SHORT or LONG result carries that direction's map
\* with every entry true.
C24_SignalAndMap ==
    sig_result # << >> =>
        /\ sig_result[1] = "SHORT" <=> ShortAll
        /\ sig_result[1] = "LONG" <=> (~ShortAll /\ LongAll)
        /\ sig_result[1] = "None" <=> (~ShortAll /\ ~LongAll)
        /\ DOMAIN sig_result[2] = ConditionKeys
        /\ sig_result[1] = "None" =>
              /\ sig_result[2] = ShortMap
              /\ \E k \in ConditionKeys : ~sig_result[2][k]
        /\ sig_result[1] = "SHORT" =>
              /\ sig_result[2] = ShortMap
              /\ \A k \in ConditionKeys : sig_result[2][k]
        /\ sig_result[1] = "LONG" =>
              /\ sig_result[2] = LongMap
              /\ \A k \in ConditionKeys : sig_result[2][k]

\* a no-signal call whose SHORT map has true entries and differs from the
\* LONG map
C24_Witness ==
    /\ sig_result # << >>
    /\ sig_result[1] = "None"
    /\ sig_result[2] = ShortMap
    /\ ShortMap # LongMap
    /\ \E k \in ConditionKeys : ShortMap[k]
    /\ \E k \in ConditionKeys : LongMap[k]


\* C25: every state of the fitted label map carries the first label, in the
\* order Crisis, Volatile, Bull, Normal, whose test its return statistics
\* pass: std > 0.015 and mean < 0; std > 0.012; mean > 0.001; none.  A state
\* with std > 0.015 and mean >= 0 is Volatile.
C25_LabelPriority ==
    (cs_pc = "state" /\ hmm_model # None) =>
        \A st \in DOMAIN state_labels :
            LET std == state_stats[st].std
                mean == state_stats[st].mean
                crisis == std > 15 /\ mean < 0
                volatile == ~crisis /\ std > 12
                bull == ~crisis /\ ~volatile /\ mean > 1
            IN  /\ state_labels[st] \in {"Crisis", "Volatile", "Bull", "Normal"}
                /\ state_labels[st] = "Crisis" <=> crisis
                /\ state_labels[st] = "Volatile" <=> volatile
                /\ state_labels[st] = "Bull" <=> bull
                /\ state_labels[st] = "Normal" <=>
                      (~crisis /\ ~volatile /\ ~bull)
                /\ (std > 15 /\ mean >= 0) => state_labels[st] = "Volatile"

\* a fitted map with a Volatile state of high volatility and positive mean
\* next to a Bull state
C25_Witness ==
    /\ cs_pc = "state"
    /\ hmm_model # None
    /\ \E st \in DOMAIN state_labels :
          /\ state_stats[st].std > 15
          /\ state_stats[st].mean > 1
          /\ state_labels[st] = "Volatile"
    /\ \E st \in DOMAIN state_labels : state_labels[st] = "Bull"


\* 1000 x the raw score of row k: 0.8 + 0.3 x (vix / 20 - 1) - 10 x mean5,
\* with the returns in percent
RawScore(k) ==
    800 + 15 * px_vix[k] - 300
        - 20 * sum_returns(px_returns, k - RollingWindow + 1, k)

\* C26: every defined value of the sentiment proxy is the raw score
\* 0.8 + 0.3 x (vix / 20 - 1) - 10 x mean5(returns) limited to [0.3, 2.5]:
\* the raw score inside the interval, 0.3 below it, 2.5 above it.
C26_ProxyRange ==
    px_pc = "done" =>
        \A k \in 1..ProxyRows :
            ~px_result[k].nan =>
                LET v == px_result[k].value
                IN  /\ RLe(Rat(3, 10), v)
                    /\ RLe(v, Rat(25, 10))
                    /\ v = Rat(IF RawScore(k) < 300 THEN 300
                               ELSE IF RawScore(k) > 2500 THEN 2500
                               ELSE RawScore(k), 1000)

\* one defined value whose raw score lies below 0.3
C26_Witness ==
    /\ px_pc = "done"
    /\ \E k \in 1..ProxyRows :
          /\ ~px_result[k].nan
          /\ RawScore(k) < 300
          /\ px_result[k].value = Rat(3, 10)


\* return of the traded sleeve of trade t on the day at index j, from the
\* rows of data: the instrument's own price when the entry and the day have
\* one, otherwise minus three times the index return since the entry
SleeveReturn(t, j) ==
    IF t.entry_real /\ ~pd_isna(iloc(data, "spxs", j))
    THEN rel_change(RInt(iloc(data, "spxs", t.entry_idx)),
                    RInt(iloc(data, "spxs", j)))
    ELSE RMul(RInt(-3),
              rel_change(RInt(iloc(data, "close", t.entry_idx)),
                         RInt(iloc(data, "close", j))))

GainDay(t, j) == RGe(SleeveReturn(t, j), Pct(config.gain_target))
StopDay(t, j) == RLe(SleeveReturn(t, j), RNeg(Pct(config.stop_loss)))
LastHoldDay(t, j) == j - t.entry_idx >= config.hold_days

\* days after the entry of trade t that the hold horizon and the data allow
HorizonDays(t) ==
    (t.entry_idx + 1)..Min(t.entry_idx + config.hold_days, Len(data) - 1)

\* C27: a recorded trade of the exit-rule backtesters exits on the first day
\* strictly after its entry day on which the gain target, the stop loss or
\* the maximum hold is met: no earlier day after the entry meets one; if the
\* first gain-target day of the hold horizon has no stop-loss day before it
\* the trade exits on that day as GAIN TARGET; and an exit found by the
\* monitoring loop is never on the entry day.
C27_FirstExitDay ==
    ExitRuleRun =>
        \A k \in 1..Len(trades) :
            LET t == trades[k]
            IN  /\ \A j \in (t.entry_idx + 1)..(t.exit_idx - 1) :
                      ~(GainDay(t, j) \/ StopDay(t, j) \/ LastHoldDay(t, j))
                /\ t.exit_reason # "END OF DATA" =>
                      /\ t.exit_idx > t.entry_idx
                      /\ GainDay(t, t.exit_idx) \/ StopDay(t, t.exit_idx)
                            \/ LastHoldDay(t, t.exit_idx)
                /\ \A j \in HorizonDays(t) :
                      (/\ GainDay(t, j)
                       /\ \A m \in (t.entry_idx + 1)..(j - 1) :
                             ~GainDay(t, m) /\ ~StopDay(t, m))
                          => /\ t.exit_idx = j
                             /\ t.exit_reason = "GAIN TARGET"

\* the target was reached on the first of two hold days and the trade left
\* on that day
C27_Witness ==
    /\ ExitRuleRun
    /\ config.hold_days = 2
    /\ Len(trades) >= 1
    /\ trades[1].exit_idx = trades[1].entry_idx + 1
    /\ trades[1].exit_reason = "GAIN TARGET"
    /\ GainDay(trades[1], trades[1].exit_idx)


\* C28: a triggered day on which not even one base unit fits in the
\* remaining annual cap appends one skip and changes nothing else:
\* qqq_shares, total_invested, annual_spending, buy_sequence,
\* last_purchase_price, last_10k_price and the recorded buys keep their
\* values; a skip is recorded on no other day.
C28_SkipChangesNothing ==
    [][DipDayStep =>
          LET remaining ==
                  annual_cap - Get(annual_spending, year', 0)
              no_unit_fits ==
                  /\ SingleDayDrop \/ DrawdownDrop
                  /\ remaining < base_buy_amount
          IN  /\ no_unit_fits <=> Len(skips') = Len(skips) + 1
              /\ ~no_unit_fits => skips' = skips
              /\ no_unit_fits =>
                    /\ SubSeq(skips', 1, Len(skips)) = skips
                    /\ skips'[Len(skips')].price = prices'[Len(prices')]
                    /\ skips'[Len(skips')].year = year'
                    /\ UNCHANGED <<qqq_shares, total_invested,
                                   annual_spending, buy_sequence,
                                   last_purchase_price, last_10k_price,
                                   buys, resets>>
      ]_vars

\* a skip was recorded in the middle of a progression and left its state
\* as the purchases before it had set it
C28_Witness ==
    /\ Len(skips) >= 1
    /\ Len(buys) >= 2
    /\ buy_sequence = buys[Len(buys)].sequence
    /\ buy_sequence >= 2
    /\ last_purchase_price = buys[Len(buys)].price
    /\ skips[Len(skips)].date > buys[Len(buys)].date
    /\ total_invested = sum_amounts(buys)

\* price of the most recent recorded purchase of exactly one base unit,
\* None if there is none
RECURSIVE last_unit_price(_)
last_unit_price(bs) ==
    IF bs = << >>
    THEN None
    ELSE IF bs[Len(bs)].amount = base_buy_amount
         THEN bs[Len(bs)].price
         ELSE last_unit_price(SubSeq(bs, 1, Len(bs) - 1))

\* C29: every executed purchase increments buy_sequence by 1 and sets
\* last_purchase_price to the day's price; it sets last_10k_price to the
\* day's price if the amount is exactly one base unit and leaves it alone
\* otherwise; so last_10k_price is always the price of the most recent
\* purchase of exactly one base unit.
C29_PurchaseUpdates ==
    /\ [][Len(buys') = Len(buys) + 1 =>
            LET b == buys'[Len(buys')]
            IN  /\ b.price = prices'[Len(prices')]
                /\ buy_sequence' = buy_sequence + 1
                /\ last_purchase_price' = b.price
                /\ b.amount = base_buy_amount => last_10k_price' = b.price
                /\ b.amount # base_buy_amount
                      => last_10k_price' = last_10k_price
          ]_vars
    /\ [](last_10k_price = last_unit_price(buys))

\* a purchase of two base units at a new price moved last_purchase_price
\* and left last_10k_price at the price of the purchase before it
C29_Witness ==
    /\ Len(buys) = 2
    /\ buys[1].amount = base_buy_amount
    /\ buys[2].amount = 2 * base_buy_amount
    /\ buys[2].price # buys[1].price
    /\ last_purchase_price = buys[2].price
    /\ last_10k_price = buys[1].price
    /\ buy_sequence = 2

\* C30: last_10k_price only moves on the first step of a progression:
\* whenever its value changes buy_sequence was 0 before the day's purchase,
\* and a purchase made with buy_sequence > 0 leaves it as it was.
C30_ResetReferenceUnscaled ==
    [][/\ last_10k_price' # last_10k_price => buy_sequence = 0
       /\ (Len(buys') = Len(buys) + 1 /\ buy_sequence > 0)
             => last_10k_price' = last_10k_price
      ]_vars


\* buy_sequence as the reset check of the day just processed left it: a
\* purchase of the day records it incremented by 1
SequenceAfterResetCheck ==
    IF Len(buys') = Len(buys) + 1
    THEN buys'[Len(buys')].sequence - 1
    ELSE buy_sequence'

\* a reset event was recorded for the day just processed
ResetRecorded ==
    /\ Len(resets') = Len(resets) + 1
    /\ SubSeq(resets', 1, Len(resets)) = resets
    /\ resets'[Len(resets')] =
          [date |-> Len(prices), price |-> prices'[Len(prices')]]

\* C31 as stated: on every day whose price exceeds last_10k_price x
\* reset_threshold, buy_sequence is 0 after the reset check and a reset
\* event is recorded for that day.
C31_ResetAlwaysRecorded ==
    [][(DipDayStep /\ ResetPrice) =>
          /\ SequenceAfterResetCheck = 0
          /\ ResetRecorded
      ]_vars

\* C31 amended: on every day whose price exceeds last_10k_price x
\* reset_threshold, buy_sequence is 0 after the reset check, and a reset
\* event is recorded for that day exactly when buy_sequence was greater
\* than 0 before the check; no reset event is recorded on any other day.
C31_ResetRecordedWhenCounting ==
    [][DipDayStep =>
          /\ ResetPrice =>
                /\ SequenceAfterResetCheck = 0
                /\ buy_sequence > 0 => ResetRecorded
                /\ buy_sequence = 0 => resets' = resets
          /\ ~ResetPrice => resets' = resets
      ]_vars

\* a progression of two purchases was reset, and on a later day above the
\* reset price no second event was recorded
C31_Witness ==
    /\ Len(resets) = 1
    /\ Len(buys) = 2
    /\ buys[2].sequence = 2
    /\ resets[1].date > buys[2].date
    /\ Len(prices) >= resets[1].date + 2
    /\ prices[Len(prices)] * 100 > last_10k_price * reset_threshold
    /\ buy_sequence = 0


\* C32: the regression of calculate_fractal_dimension pairs each average
\* rescaled-range value with the lag that produced it, so the lags of the
\* fitted points are exactly the lags in 2..max_lag-1 that yielded a value.
C32_PointsPairOwnLag ==
    (fd_pc = "done" /\ ~fd_result.none) =>
        /\ \A k \in 1..Len(fd_result.points) :
              fd_result.points[k].lag = fd_result.points[k].tau_of
        /\ {fd_result.points[k].lag : k \in 1..Len(fd_result.points)}
              = LagsWithValue


\* C33: every trade of StrategyBacktester has total_return =
\* (1 - position_size) x spy_return + position_size x spxs_return for the
\* configured position_size.
C33_ReserveIsRemainder ==
    backtester = "Strategy" =>
        \A k \in 1..Len(trades) :
            LET t == trades[k]
                position_size == Pct(config.position_size)
            IN  t.total_return =
                    RAdd(RMul(RSub(RInt(1), position_size), t.spy_return),
                         RMul(position_size, t.spxs_return))

\* ---------------------------------------------------------------- C34
\* the step is one iteration of the run_backtest loop, for index i
LoopIteration == pc = "loop" /\ i < DataLen /\ (i' = i + 1 \/ pc' = "monitor")

\* the iteration opened a position (StrategyBacktester resolves the trade
\* at once, the exit-rule backtesters start monitoring it)
Opened ==
    IF backtester = "Strategy"
    THEN Len(trades') = Len(trades) + 1
    ELSE ~pos.open /\ pos'.open /\ pos'.entry_idx = i

\* i is after the exit of the last trade
AfterLastExit ==
    \/ last_trade_exit = None
    \/ IF backtester = "FullyInvested"
       THEN i > last_trade_exit
       ELSE index(i) > last_trade_exit

WindowLongEnough == LookbackWindow + 1 >= config.min_data_points

PortfolioState ==
    <<pos, trades, last_trade_exit, portfolio_value, spy_shares,
      cumulative_gain>>

SignalRecorded ==
    /\ Len(signals') = Len(signals) + 1
    /\ SubSeq(signals', 1, Len(signals)) = signals
    /\ signals'[Len(signals')].date = index(i)
    /\ signals'[Len(signals')].type = day_signal'

\* C34: in the three trade backtesters an iteration reaches check_signal
\* exactly when no position is open (i is after the last exit), the window
\* is long enough and the state computes without error, and it opens a
\* position exactly when, in addition, the signal is SHORT; an iteration
\* whose signal is LONG leaves the portfolio state unchanged.  In
\* CrashBacktester every iteration with a long enough window and no error is
\* evaluated, and it appends one signal entry, of the day and of the
\* signal's type, exactly when the signal is SHORT or LONG.
C34_OpenIffShort ==
    [][LoopIteration =>
        /\ backtester # "Crash" =>
             /\ day_signal' # "NotEvaluated" <=>
                  (AfterLastExit /\ WindowLongEnough /\ exc' = "None")
             /\ Opened <=>
                  (/\ AfterLastExit
                   /\ WindowLongEnough
                   /\ exc' = "None"
                   /\ day_signal' = "SHORT")
             /\ day_signal' = "LONG" =>
                  /\ UNCHANGED PortfolioState
                  /\ pc' = "loop"
             /\ signals' = signals
        /\ backtester = "Crash" =>
             /\ day_signal' # "NotEvaluated" <=>
                  (WindowLongEnough /\ exc' = "None")
             /\ IF day_signal' \in {"SHORT", "LONG"}
                THEN SignalRecorded
                ELSE signals' = signals
             /\ UNCHANGED PortfolioState]_vars

\* a LONG day passed after a closed trade without touching the portfolio
C34_Witness ==
    /\ backtester \in {"Portfolio", "FullyInvested", "Strategy"}
    /\ pc = "loop"
    /\ day_signal = "LONG"
    /\ Len(trades) = 1
    /\ i = DataLen

\* ---------------------------------------------------------------- C35
RECURSIVE sum_gains(_)
\* sum of portfolio_after - portfolio_before over the trade records ts
sum_gains(ts) ==
    IF ts = << >>
    THEN RInt(0)
    ELSE RAdd(sum_gains(SubSeq(ts, 1, Len(ts) - 1)),
              RSub(ts[Len(ts)].portfolio_after,
                   ts[Len(ts)].portfolio_before))

\* C35: in FullyInvestedBacktester.run_backtest every closed trade leaves
\* the whole post-exit value in benchmark shares (spy_shares_after x exit
\* benchmark price = portfolio_after, and between trades the run holds
\* exactly those shares and no position); cumulative_gain is the sum of
\* portfolio_after - portfolio_before over all trades; the returned final
\* value is spy_shares x the last benchmark price.
C35_FullReinvestment ==
    backtester = "FullyInvested" =>
        /\ \A k \in 1..Len(trades) :
             /\ RMul(trades[k].spy_shares_after, trades[k].exit_spy_price)
                  = trades[k].portfolio_after
             /\ trades[k].exit_spy_price
                  = RInt(iloc(data, "spy", trades[k].exit_idx))
        /\ (pc \in {"loop", "done"} /\ Len(trades) > 0) =>
             /\ spy_shares = trades[Len(trades)].spy_shares_after
             /\ portfolio_value = trades[Len(trades)].portfolio_after
             /\ pos = NoPos
        /\ cumulative_gain = sum_gains(trades)
        /\ pc = "done" =>
             final_portfolio_value
               = RMul(spy_shares, RInt(iloc(data, "spy", DataLen - 1)))

\* a finished run of two trades, the first with a gain or loss, whose exit
\* benchmark price differs from the entry's
C35_Witness ==
    /\ backtester = "FullyInvested"
    /\ pc = "done"
    /\ Len(trades) = 2
    /\ trades[1].portfolio_after # trades[1].portfolio_before
    /\ trades[1].exit_spy_price # trades[1].entry_spy_price
    /\ trades[2].portfolio_before # trades[1].portfolio_after

\* ---------------------------------------------------------------- C36
\* the return of row k of the window is defined
ReturnDefined(k) == k # cs_returns.nan_at

\* the rolling standard deviation over w rows is defined at row k: the w
\* returns ending at k exist and are all defined
StdDefined(w, k) == k >= w /\ cs_returns.nan_at \notin (k - w + 1)..k

\* rows whose return, 5-day and 20-day rolling deviations are all defined
CompleteRows ==
    {k \in 1..cs_returns.len :
        ReturnDefined(k) /\ StdDefined(5, k) /\ StdDefined(20, k)}

\* C36: once calculate_current_state has returned, fewer than 30 complete
\* feature rows (return, 5-day and 20-day rolling standard deviation all
\* defined) mean that no model was returned and the regime is 'Unknown';
\* with at least 30 complete rows a model and a non-empty label map were
\* returned.
C36_UnknownBelowThirtyRows ==
    cs_pc = "state" =>
        /\ Cardinality(CompleteRows) < 30 =>
             /\ hmm_model = None
             /\ DOMAIN state_labels = {}
             /\ sig_state.markov_state = "Unknown"
        /\ Cardinality(CompleteRows) >= 30 =>
             /\ hmm_model # None
             /\ DOMAIN state_labels # {}

\* a window of 49 rows whose first return is missing: 44 rows have a return
\* and a 5-day deviation, only 29 also have the 20-day deviation
C36_Witness ==
    /\ cs_pc = "state"
    /\ cs_returns = [len |-> 49, nan_at |-> 1]
    /\ Cardinality({k \in 1..49 : ReturnDefined(k) /\ StdDefined(5, k)}) = 44
    /\ Cardinality(CompleteRows) = 29
    /\ sig_state.markov_state = "Unknown"

\* ---------------------------------------------------------------- C37
\* C37: in every trade record of PortfolioBacktester and
\* FullyInvestedBacktester days_held is the exit index minus the entry
\* index; TIME EXIT implies days_held = hold_days; GAIN TARGET or STOP LOSS
\* implies 1 <= days_held <= hold_days; END OF DATA implies that the exit
\* index is the last index of the series and days_held < hold_days.
C37_ReasonMatchesHold ==
    backtester \in {"Portfolio", "FullyInvested"} =>
        \A k \in 1..Len(trades) :
            LET t == trades[k]
                hold_days == config.hold_days
            IN  /\ t.days_held = t.exit_idx - t.entry_idx
                /\ t.exit_reason \in ExitReasons
                /\ t.exit_reason = "TIME EXIT" => t.days_held = hold_days
                /\ t.exit_reason \in {"GAIN TARGET", "STOP LOSS"} =>
                     (1 <= t.days_held /\ t.days_held <= hold_days)
                /\ t.exit_reason = "END OF DATA" =>
                     /\ t.exit_idx = DataLen - 1
                     /\ t.days_held < hold_days

\* a run whose first trade left on the gain target before the maximum hold
\* and whose second trade ran into the end of the data
C37_Witness ==
    /\ backtester \in {"Portfolio", "FullyInvested"}
    /\ pc = "done"
    /\ Len(trades) = 2
    /\ trades[1].exit_reason = "GAIN TARGET"
    /\ trades[1].days_held < config.hold_days
    /\ trades[2].exit_reason = "END OF DATA"

\* ---------------------------------------------------------------- C38
\* last_purchase_price and last_10k_price are both unset before the first
\* purchase and both set after it; the first purchase is one base unit
UnsetTogether ==
    /\ last_purchase_price = None <=> Len(buys) = 0
    /\ last_10k_price = None <=> Len(buys) = 0
    /\ Len(buys) > 0 =>
         /\ buys[1].amount = base_buy_amount
         /\ buys[1].sequence = 1
    /\ Len(buys) = 0 =>
         /\ resets = << >>
         /\ buy_sequence = 0

\* C38: in the dip-buy loop last_purchase_price is unset exactly when
\* last_10k_price is unset exactly when no purchase has been executed; the
\* first executed purchase is exactly one base unit; on a day before the
\* first purchase neither the reset test nor the drawdown trigger holds,
\* and a first purchase is triggered by the single-day drop.
C38_ReferencesUnsetTogether ==
    /\ [](UnsetTogether)
    /\ [][(DipDayStep /\ Len(buys) = 0) =>
             /\ ~ResetPrice
             /\ ~DrawdownDrop
             /\ resets' = << >>
             /\ Len(buys') = 1 => SingleDayDrop]_vars

\* the first purchase came after a day without trigger and was followed by
\* a reset
C38_Witness ==
    /\ Len(buys) = 1
    /\ buys[1].date > 1
    /\ Len(resets) = 1
    /\ last_purchase_price = buys[1].price
    /\ last_10k_price = buys[1].price

\* ---------------------------------------------------------------- C39
\* purchases recorded since the most recent recorded reset, or since the
\* start if there is none (the reset check of a day precedes its purchase)
PurchasesSinceReset ==
    LET since == IF resets = << >> THEN 0 ELSE resets[Len(resets)].date
    IN  Cardinality({k \in 1..Len(buys) : buys[k].date >= since})

\* C39: every executed dip-buy purchase is a positive multiple of
\* base_buy_amount between base_buy_amount and base_buy_amount x
\* (buy_sequence + 1), buy_sequence being its value before the purchase, and
\* the purchase increments buy_sequence by 1; buy_sequence always equals the
\* number of purchases executed since the most recent reset (since the start
\* if none), purchases reduced by the cap included.
C39_AmountRangeAndCount ==
    /\ [][(DipDayStep /\ Len(buys') = Len(buys) + 1) =>
             LET amount == buys'[Len(buys')].amount
             IN  /\ amount % base_buy_amount = 0
                 /\ amount >= base_buy_amount
                 /\ amount <= base_buy_amount * (buy_sequence + 1)
                 /\ buy_sequence' = buy_sequence + 1]_vars
    /\ [](dip_pc # "off" => buy_sequence = PurchasesSinceReset)

\* after a reset, a full purchase and a purchase cut down to one base unit
\* by the annual cap: both count
C39_Witness ==
    /\ Len(resets) = 1
    /\ Len(buys) = 3
    /\ resets[1].date < buys[2].date
    /\ buys[3].sequence = 2
    /\ buys[3].amount = base_buy_amount
    /\ buy_sequence = 2

\* ---------------------------------------------------------------- C40
\* C40: a PortfolioBacktester or FullyInvestedBacktester run that produced
\* no trade completes: analyze_results followed by the report-writing step
\* of main does not raise.
C40_ZeroTradesCompletes ==
    (backtester \in {"Portfolio", "FullyInvested"} /\ trades = << >>) =>
        pc # "raised"

====
